---------------------------- MODULE Spec2Model ----------------------------
(***************************************************************************)
(* Model of the AgeKey SDK (@agekey/sdk): callback validation of the Use   *)
(* flow, the token codec it relies on, the constant-time comparison and    *)
(* the error taxonomy.                                                     *)
(*                                                                         *)
(* Representation of the JavaScript values                                 *)
(*   string (state, nonce)  a sequence of UTF-16 code units                *)
(*   JSON value             a record tagged by t: "null", "number",        *)
(*                          "string", "boolean", "object", "array";        *)
(*                          "undefined" is the value of a missing property *)
(*   URLSearchParams        a function from the names of the parameters    *)
(*                          present in the query to their values           *)
(*   JWT                    the sequence of its dot-separated segments     *)
(*   segment                [chars, text]: the alphabet its characters     *)
(*                          are drawn from and the text they encode        *)
(***************************************************************************)
EXTENDS Integers, Sequences, FiniteSets, TLC

(***************************************************************************)
(* Bounds of the model                                                     *)
(***************************************************************************)
MaxLen == 2        \* longest string handed to validateState in SpecValidate

MaxTicks == 2      \* number of times the clock advances

TickMs == 500      \* milliseconds the clock advances by in one step

MaxCalls == 2      \* number of calls of the synchronous methods in SpecOps

(***************************************************************************)
(* Program constants                                                       *)
(***************************************************************************)
MsPerSecond == 1000

(***************************************************************************)
(* JSON values and the JavaScript operations applied to them               *)
(***************************************************************************)
Undefined == [t |-> "undefined"]

JNull == [t |-> "null"]

JNum(n) == [t |-> "number", v |-> n]

JStr(s) == [t |-> "string", v |-> s]

JBool(b) == [t |-> "boolean", v |-> b]

JObj(f) == [t |-> "object", v |-> f]

JArr(s) == [t |-> "array", v |-> s]

\* typeof x
TypeOf(x) ==
  CASE x.t = "undefined" -> "undefined"
    [] x.t = "number" -> "number"
    [] x.t = "string" -> "string"
    [] x.t = "boolean" -> "boolean"
    [] OTHER -> "object"

\* !!x
Truthy(x) ==
  CASE x.t = "undefined" -> FALSE
    [] x.t = "null" -> FALSE
    [] x.t = "number" -> x.v # 0
    [] x.t = "string" -> x.v # <<>>
    [] x.t = "boolean" -> x.v
    [] OTHER -> TRUE

\* x[key] for one of the claim names read by the SDK
Prop(x, key) ==
  IF x.t = "object" /\ key \in DOMAIN x.v THEN x.v[key] ELSE Undefined

(***************************************************************************)
(* 32-bit bitwise operators on non-negative operands                       *)
(***************************************************************************)
RECURSIVE BitXor(_, _)
BitXor(a, b) ==
  IF a = b THEN 0
  ELSE IF a = 0 THEN b
  ELSE IF b = 0 THEN a
  ELSE (((a % 2) + (b % 2)) % 2) + 2 * BitXor(a \div 2, b \div 2)

RECURSIVE BitOr(_, _)
BitOr(a, b) ==
  IF a = 0 THEN b
  ELSE IF b = 0 THEN a
  ELSE (IF a % 2 = 1 \/ b % 2 = 1 THEN 1 ELSE 0) + 2 * BitOr(a \div 2, b \div 2)

(***************************************************************************)
(* utils/state.ts: validateState                                           *)
(***************************************************************************)
\* the comparison loop with the differences accumulated by ^= instead of |=
RECURSIVE CompareLoop_xor(_, _, _, _)
CompareLoop_xor(received, expected, i, result) ==
  IF i > Len(received) THEN result
  ELSE LET next == BitXor(result, BitXor(received[i], expected[i])) IN
       \* the accumulator is evaluated at every turn of the loop
       IF next = 0
       THEN CompareLoop_xor(received, expected, i + 1, 0)
       ELSE CompareLoop_xor(received, expected, i + 1, next)

\* for (let i = 0; i < received.length; i++) result |= a.charCodeAt(i) ^ b.charCodeAt(i)
RECURSIVE CompareLoop(_, _, _, _)
CompareLoop(received, expected, i, result) ==
  IF i > Len(received) THEN result
  ELSE LET next == BitOr(result, BitXor(received[i], expected[i])) IN
       \* the accumulator is evaluated at every turn of the loop
       IF next = 0
       THEN CompareLoop(received, expected, i + 1, 0)
       ELSE CompareLoop(received, expected, i + 1, next)

\* validateState with the differences accumulated by ^= instead of |=
validateState_xor(received, expected) ==
  IF received = <<>> \/ expected = <<>> THEN FALSE
  ELSE IF Len(received) # Len(expected) THEN FALSE
  ELSE CompareLoop_xor(received, expected, 1, 0) = 0

validateState(received, expected) ==
  IF received = <<>> \/ expected = <<>> THEN FALSE
  ELSE IF Len(received) # Len(expected) THEN FALSE
  ELSE CompareLoop(received, expected, 1, 0) = 0

(***************************************************************************)
(* errors.ts: the error classes and mapOidcError.  A message is the        *)
(* sequence of the pieces it is concatenated from; an error description    *)
(* that is not given is the empty string (both are falsy in the code).     *)
(***************************************************************************)
\* new AgeKeyError(code, message) without options
AgeKeyError(code, message) ==
  [name |-> "AgeKeyError", code |-> code, message |-> message]

\* new AgeKeyError(code, message, { docsUrl })
AgeKeyErrorDocs(code, message, docsUrl) ==
  [name |-> "AgeKeyError", code |-> code, message |-> message,
   docsUrl |-> docsUrl]

\* a || b on message strings
OrElse(a, b) == IF a # <<>> THEN a ELSE b

StateMismatchError ==
  [AgeKeyErrorDocs("state_mismatch",
     <<"State parameter mismatch. The callback state doesn't match the original request. This could indicate a CSRF attack or an expired session.">>,
     "https://docs.agekey.org/troubleshooting#state-mismatch")
   EXCEPT !.name = "StateMismatchError"]

NonceMismatchError ==
  [AgeKeyErrorDocs("nonce_mismatch",
     <<"Nonce mismatch. The ID token nonce doesn't match the original request. This could indicate a replay attack.">>,
     "https://docs.agekey.org/troubleshooting#nonce-mismatch")
   EXCEPT !.name = "NonceMismatchError"]

AccessDeniedError(errorDescription) ==
  [name |-> "AccessDeniedError", code |-> "access_denied",
   message |-> OrElse(errorDescription,
     <<"User denied the age verification request or closed the dialog.">>),
   docsUrl |-> "https://docs.agekey.org/guides/handling-denials",
   errorDescription |-> errorDescription]

InvalidTokenError(message) ==
  [AgeKeyErrorDocs("invalid_token",
     OrElse(message, <<"Invalid or malformed ID token received.">>),
     "https://docs.agekey.org/guides/jwt-validation")
   EXCEPT !.name = "InvalidTokenError"]

InvalidRequestError(message) ==
  [AgeKeyErrorDocs("invalid_request", message,
     "https://docs.agekey.org/api-reference")
   EXCEPT !.name = "InvalidRequestError"]

UnauthorizedClientError(message) ==
  [AgeKeyErrorDocs("unauthorized_client",
     OrElse(message,
       <<"Client is not authorized to perform this request. Check your credentials.">>),
     "https://docs.agekey.org/troubleshooting#unauthorized-client")
   EXCEPT !.name = "UnauthorizedClientError"]

ServerError(message) ==
  [AgeKeyErrorDocs("server_error",
     OrElse(message, <<"AgeKey server error. Please try again later.">>),
     "https://docs.agekey.org/troubleshooting#server-errors")
   EXCEPT !.name = "ServerError"]

\* mapOidcError without the temporarily_unavailable case
mapOidcError_noTemporarily(error, errorDescription) ==
  LET message == OrElse(errorDescription, <<"OIDC error: ", error>>) IN
  CASE error = "access_denied" -> AccessDeniedError(errorDescription)
    [] error = "invalid_request" -> InvalidRequestError(message)
    [] error = "unauthorized_client" -> UnauthorizedClientError(message)
    [] error = "server_error" -> ServerError(message)
    [] OTHER -> AgeKeyError("invalid_request", message)

mapOidcError(error, errorDescription) ==
  LET message == OrElse(errorDescription, <<"OIDC error: ", error>>) IN
  CASE error = "access_denied" -> AccessDeniedError(errorDescription)
    [] error = "invalid_request" -> InvalidRequestError(message)
    [] error = "unauthorized_client" -> UnauthorizedClientError(message)
    [] error = "server_error" -> ServerError(message)
    [] error = "temporarily_unavailable" ->
         ServerError(<<"Service temporarily unavailable. ">> \o message)
    [] OTHER -> AgeKeyError("invalid_request", message)

(***************************************************************************)
(* jwt utilities (constants.ts 63-181): decodeJwtPayload and the claim     *)
(* accessors.  A token is the sequence of its dot-separated segments, so   *)
(* that token.split(".") is the token itself; the empty string is the      *)
(* token of one empty segment.                                             *)
(***************************************************************************)
EmptySegment == [chars |-> "none"]

\* a segment that encodes text; chars is the alphabet its characters use:
\* "std" (base64), "url" (base64url, with - or _), "invalid" (not base64)
Segment(chars, text) == [chars |-> chars, text |-> text]

JsonText(value) == [syntax |-> "json", value |-> value]

NotJsonText == [syntax |-> "other"]

\* payload.replace(/-/g, "+").replace(/_/g, "/")
ToBase64(segment) ==
  IF segment.chars = "url" THEN [segment EXCEPT !.chars = "std"] ELSE segment

\* atob(base64) succeeds on the standard alphabet only
AtobThrows(base64) == base64.chars # "std"

Atob(base64) == base64.text

\* JSON.parse(text)
JsonParseThrows(text) == text.syntax # "json"

JsonParse(text) == text.value

\* decodeJwtPayload without the parts.length !== 3 test
decodeJwtPayload_anyLength(token) ==
  LET parts == token IN
  IF Len(parts) < 2 THEN JNull
  ELSE LET payload == parts[2] IN
       IF payload = EmptySegment THEN JNull
       ELSE LET base64 == ToBase64(payload) IN
            IF AtobThrows(base64) THEN JNull
            ELSE IF JsonParseThrows(Atob(base64)) THEN JNull
            ELSE JsonParse(Atob(base64))

decodeJwtPayload(token) ==
  LET parts == token IN
  IF Len(parts) # 3 THEN JNull
  ELSE LET payload == parts[2] IN
       IF payload = EmptySegment THEN JNull
       ELSE LET base64 == ToBase64(payload) IN
            IF AtobThrows(base64) THEN JNull
            ELSE IF JsonParseThrows(Atob(base64)) THEN JNull
            ELSE JsonParse(Atob(base64))

\* extractAgeThresholds accepting any age_thresholds value that is present
extractAgeThresholds_any(payload) ==
  LET ageThresholds == Prop(payload, "age_thresholds") IN
  IF ageThresholds # Undefined THEN ageThresholds ELSE JNull

extractAgeThresholds(payload) ==
  LET ageThresholds == Prop(payload, "age_thresholds") IN
  IF TypeOf(ageThresholds) = "object" /\ ageThresholds # JNull
  THEN ageThresholds
  ELSE JNull

extractSubject(payload) ==
  LET sub == Prop(payload, "sub") IN
  IF TypeOf(sub) = "string" THEN sub ELSE Undefined

extractNonce(payload) ==
  LET nonce == Prop(payload, "nonce") IN
  IF TypeOf(nonce) = "string" THEN nonce ELSE Undefined

(***************************************************************************)
(* The state of the program and of its environment                         *)
(***************************************************************************)
VARIABLES
  client,       \* client[c]: the config and environment fixed at construction
  clock,        \* Date.now(), in milliseconds
  callbackUrl,  \* the redirect URL that came back from the authorization server
  validation,   \* the { state, nonce } the caller kept from the request
  outcome,      \* outcome[c]: what the last handleCallback on client c did
  call,         \* a direct call of an exported function: arguments and return
  random,       \* the platform CSPRNG: whether it exists and what it returned
  network,      \* the transport: the requests sent through fetch
  par,          \* par[c]: the pushAuthorizationRequest or initiate call on client c
  flows         \* flows[f]: the Use-flow session of logical flow f

vars ==
  <<client, clock, callbackUrl, validation, outcome, call,
    random, network, par, flows>>

\* isTokenExpired with > in place of >=
isTokenExpired_strict(payload) ==
  LET exp == Prop(payload, "exp") IN
  IF TypeOf(exp) # "number" THEN TRUE
  ELSE LET now == clock \div MsPerSecond IN now > exp.v

isTokenExpired(payload) ==
  LET exp == Prop(payload, "exp") IN
  IF TypeOf(exp) # "number" THEN TRUE
  ELSE LET now == clock \div MsPerSecond IN now >= exp.v

(***************************************************************************)
(* use-agekey.ts: UseAgeKeyClient.handleCallback.  The outcome is either   *)
(* [kind |-> "return", value] or [kind |-> "throw", error]; checks is the  *)
(* sequence of the checks the call went through before it ended.           *)
(***************************************************************************)
Return(value, checks) == [kind |-> "return", value |-> value, checks |-> checks]

Throw(error, checks) == [kind |-> "throw", error |-> error, checks |-> checks]

\* what new URL(callbackUrl) throws for a string that is not an absolute URL
TypeError == [name |-> "TypeError", message |-> <<"Invalid URL">>]

\* params.get(name) is a non-empty string
ParamSet(params, name) == name \in DOMAIN params /\ params[name] # ""

\* handleCallback that skips the expiry check on a test-environment client
handleCallback_testSkipsExpiry(self, url, expected) ==
  IF ~url.parses THEN Throw(TypeError, <<>>)
  ELSE
  LET params == url.searchParams
      errorDescription ==
        IF ParamSet(params, "error_description")
        THEN <<params["error_description"]>> ELSE <<>>
  IN
  IF ParamSet(params, "error")
  THEN Throw(mapOidcError(params["error"], errorDescription), <<"error">>)
  ELSE IF ~("state" \in DOMAIN params /\ params["state"] # <<>>)
          \/ ~validateState(params["state"], expected.state)
  THEN Throw(StateMismatchError, <<"error", "state">>)
  ELSE IF ~("id_token" \in DOMAIN params /\ params["id_token"] # <<EmptySegment>>)
  THEN Throw(InvalidTokenError(<<"No ID token in callback">>),
             <<"error", "state", "id_token">>)
  ELSE
  LET payload == decodeJwtPayload(params["id_token"])
      tokenNonce == extractNonce(payload)
      ageThresholds == extractAgeThresholds(payload)
  IN
  IF ~Truthy(payload)
  THEN Throw(InvalidTokenError(<<"Failed to decode ID token">>),
             <<"error", "state", "id_token", "decode">>)
  ELSE IF ~Truthy(tokenNonce) \/ ~validateState(tokenNonce.v, expected.nonce)
  THEN Throw(NonceMismatchError,
             <<"error", "state", "id_token", "decode", "nonce">>)
  ELSE IF ~self.environment.isTest /\ isTokenExpired(payload)
  THEN Throw(InvalidTokenError(<<"ID token has expired">>),
             <<"error", "state", "id_token", "decode", "nonce", "exp">>)
  ELSE IF ~Truthy(ageThresholds)
  THEN Throw(InvalidTokenError(<<"No age_thresholds in ID token">>),
             <<"error", "state", "id_token", "decode", "nonce", "exp",
               "age_thresholds">>)
  ELSE Return([ageThresholds |-> ageThresholds,
               subject |-> extractSubject(payload),
               raw |-> payload],
              <<"error", "state", "id_token", "decode", "nonce", "exp",
                "age_thresholds">>)

\* handleCallback that validates the state before it looks at the error parameter
handleCallback_stateFirst(self, url, expected) ==
  IF ~url.parses THEN Throw(TypeError, <<>>)
  ELSE
  LET params == url.searchParams
      errorDescription ==
        IF ParamSet(params, "error_description")
        THEN <<params["error_description"]>> ELSE <<>>
  IN
  IF ~("state" \in DOMAIN params /\ params["state"] # <<>>)
     \/ ~validateState(params["state"], expected.state)
  THEN Throw(StateMismatchError, <<"state">>)
  ELSE IF ParamSet(params, "error")
  THEN Throw(mapOidcError(params["error"], errorDescription), <<"state", "error">>)
  ELSE IF ~("id_token" \in DOMAIN params /\ params["id_token"] # <<EmptySegment>>)
  THEN Throw(InvalidTokenError(<<"No ID token in callback">>),
             <<"error", "state", "id_token">>)
  ELSE
  LET payload == decodeJwtPayload(params["id_token"])
      tokenNonce == extractNonce(payload)
      ageThresholds == extractAgeThresholds(payload)
  IN
  IF ~Truthy(payload)
  THEN Throw(InvalidTokenError(<<"Failed to decode ID token">>),
             <<"error", "state", "id_token", "decode">>)
  ELSE IF ~Truthy(tokenNonce) \/ ~validateState(tokenNonce.v, expected.nonce)
  THEN Throw(NonceMismatchError,
             <<"error", "state", "id_token", "decode", "nonce">>)
  ELSE IF isTokenExpired(payload)
  THEN Throw(InvalidTokenError(<<"ID token has expired">>),
             <<"error", "state", "id_token", "decode", "nonce", "exp">>)
  ELSE IF ~Truthy(ageThresholds)
  THEN Throw(InvalidTokenError(<<"No age_thresholds in ID token">>),
             <<"error", "state", "id_token", "decode", "nonce", "exp",
               "age_thresholds">>)
  ELSE Return([ageThresholds |-> ageThresholds,
               subject |-> extractSubject(payload),
               raw |-> payload],
              <<"error", "state", "id_token", "decode", "nonce", "exp",
                "age_thresholds">>)

handleCallback(self, url, expected) ==
  IF ~url.parses THEN Throw(TypeError, <<>>)
  ELSE
  LET params == url.searchParams
      errorDescription ==
        IF ParamSet(params, "error_description")
        THEN <<params["error_description"]>> ELSE <<>>
  IN
  IF ParamSet(params, "error")
  THEN Throw(mapOidcError(params["error"], errorDescription), <<"error">>)
  ELSE IF ~("state" \in DOMAIN params /\ params["state"] # <<>>)
          \/ ~validateState(params["state"], expected.state)
  THEN Throw(StateMismatchError, <<"error", "state">>)
  ELSE IF ~("id_token" \in DOMAIN params /\ params["id_token"] # <<EmptySegment>>)
  THEN Throw(InvalidTokenError(<<"No ID token in callback">>),
             <<"error", "state", "id_token">>)
  ELSE
  LET payload == decodeJwtPayload(params["id_token"])
      tokenNonce == extractNonce(payload)
      ageThresholds == extractAgeThresholds(payload)
  IN
  IF ~Truthy(payload)
  THEN Throw(InvalidTokenError(<<"Failed to decode ID token">>),
             <<"error", "state", "id_token", "decode">>)
  ELSE IF ~Truthy(tokenNonce) \/ ~validateState(tokenNonce.v, expected.nonce)
  THEN Throw(NonceMismatchError,
             <<"error", "state", "id_token", "decode", "nonce">>)
  ELSE IF isTokenExpired(payload)
  THEN Throw(InvalidTokenError(<<"ID token has expired">>),
             <<"error", "state", "id_token", "decode", "nonce", "exp">>)
  ELSE IF ~Truthy(ageThresholds)
  THEN Throw(InvalidTokenError(<<"No age_thresholds in ID token">>),
             <<"error", "state", "id_token", "decode", "nonce", "exp",
               "age_thresholds">>)
  ELSE Return([ageThresholds |-> ageThresholds,
               subject |-> extractSubject(payload),
               raw |-> payload],
              <<"error", "state", "id_token", "decode", "nonce", "exp",
                "age_thresholds">>)

(***************************************************************************)
(* utils/environment.ts and index.ts: what the constructor fixes.  A       *)
(* credential is [prefix, rest]; a URL built by concatenation is the       *)
(* sequence of its pieces.                                                 *)
(***************************************************************************)
AGEKEY_ENDPOINTS ==
  [test |-> [base |-> <<"https://api.test.agekey.org">>,
             use |-> <<"https://api.test.agekey.org/v1/oidc/use">>,
             create |-> <<"https://api.test.agekey.org/v1/oidc/create">>,
             par |-> <<"https://api.test.agekey.org/v1/oidc/create/par">>],
   live |-> [base |-> <<"https://api.agekey.org">>,
             use |-> <<"https://api.agekey.org/v1/oidc/use">>,
             create |-> <<"https://api.agekey.org/v1/oidc/create">>,
             par |-> <<"https://api.agekey.org/v1/oidc/create/par">>]]

isTestCredential(clientId) == clientId.prefix = "ak_test_"

\* getEnvironment whose override leaves the PAR endpoint on the default host
getEnvironment_parDefault(clientId, apiBaseUrlOverride) ==
  LET isTest == isTestCredential(clientId)
      endpoints == IF isTest THEN AGEKEY_ENDPOINTS.test ELSE AGEKEY_ENDPOINTS.live
  IN
  IF apiBaseUrlOverride # ""
  THEN [isTest |-> isTest,
        baseUrl |-> <<apiBaseUrlOverride>>,
        useEndpoint |-> <<apiBaseUrlOverride, "/v1/oidc/use">>,
        createEndpoint |-> <<apiBaseUrlOverride, "/v1/oidc/create">>,
        parEndpoint |-> endpoints.par]
  ELSE [isTest |-> isTest,
        baseUrl |-> endpoints.base,
        useEndpoint |-> endpoints.use,
        createEndpoint |-> endpoints.create,
        parEndpoint |-> endpoints.par]

getEnvironment(clientId, apiBaseUrlOverride) ==
  LET isTest == isTestCredential(clientId)
      endpoints == IF isTest THEN AGEKEY_ENDPOINTS.test ELSE AGEKEY_ENDPOINTS.live
  IN
  IF apiBaseUrlOverride # ""
  THEN [isTest |-> isTest,
        baseUrl |-> <<apiBaseUrlOverride>>,
        useEndpoint |-> <<apiBaseUrlOverride, "/v1/oidc/use">>,
        createEndpoint |-> <<apiBaseUrlOverride, "/v1/oidc/create">>,
        parEndpoint |-> <<apiBaseUrlOverride, "/v1/oidc/create/par">>]
  ELSE [isTest |-> isTest,
        baseUrl |-> endpoints.base,
        useEndpoint |-> endpoints.use,
        createEndpoint |-> endpoints.create,
        parEndpoint |-> endpoints.par]

\* new AgeKey(config) for a config the constructor accepts
NewAgeKey(config) ==
  [config |-> config,
   environment |-> getEnvironment(config.clientId, config.apiBaseUrl)]

(***************************************************************************)
(* The values the environment supplies                                     *)
(***************************************************************************)
Clients == {"c1", "c2"}

Configs ==
  [c \in Clients |->
     IF c = "c1"
     THEN [clientId |-> [prefix |-> "ak_test_", rest |-> "123456"],
           redirectUri |-> "https://example.com/callback",
           apiBaseUrl |-> ""]
     ELSE [clientId |-> [prefix |-> "ak_live_", rest |-> "654321"],
           redirectUri |-> "https://example.org/cb",
           apiBaseUrl |-> ""]]

\* "ab", "ba", "abc": state values; "cd", "dc": nonce values
StateAB == <<97, 98>>

StateBA == <<98, 97>>

StateABC == <<97, 98, 99>>

NonceCD == <<99, 100>>

NonceDC == <<100, 99>>

\* an optional value is the empty set or a singleton
Some(S) == {{}} \cup {{x} : x \in S}

\* the object with the given members present
Object(members) ==
  LET keys == {k \in DOMAIN members : members[k] # {}} IN
  [k \in keys |-> CHOOSE x \in members[k] : TRUE]

AgeThresholdValues ==
  {JObj([k \in {"18", "21"} |-> JBool(k = "18")]),
   JObj([k \in {"18"} |-> JStr(<<121>>)]),
   JArr(<<JBool(TRUE)>>),
   JStr(<<121>>)}

Payloads ==
  {JObj(Object([nonce |-> n, exp |-> e, age_thresholds |-> a, sub |-> s])) :
     n \in Some({JStr(NonceCD), JStr(NonceDC), JStr(<<>>), JNum(7)}),
     e \in Some({JNum(1), JNum(2), JStr(<<50>>)}),
     a \in Some(AgeThresholdValues),
     s \in Some({JStr(<<117>>)})}

Header == Segment("std", JsonText(JObj([alg |-> JStr(<<82>>)])))

Signature == Segment("url", NotJsonText)

ValidPayload ==
  JObj([nonce |-> JStr(NonceCD), exp |-> JNum(2),
        age_thresholds |-> JObj([k \in {"18"} |-> JBool(TRUE)]),
        sub |-> JStr(<<117>>)])

Tokens ==
  {<<Header, Segment("std", JsonText(p)), Signature>> : p \in Payloads}
  \cup {<<Header, Segment("url", JsonText(ValidPayload)), Signature>>,
        <<Header, Segment("invalid", JsonText(ValidPayload)), Signature>>,
        <<Header, Segment("std", NotJsonText), Signature>>,
        <<Header, Segment("std", JsonText(JNull)), Signature>>,
        <<Header, Segment("std", JsonText(JNum(0))), Signature>>,
        <<Header, Segment("std", JsonText(JNum(42))), Signature>>,
        <<Header, Segment("std", JsonText(JArr(<<JNum(1)>>))), Signature>>,
        <<Header, EmptySegment, Signature>>,
        <<Header, Segment("std", JsonText(ValidPayload))>>,
        <<Header, Segment("std", JsonText(ValidPayload)), Signature, Signature>>,
        <<EmptySegment>>}

\* the error and error_description parameters that occur together
ErrorParams ==
  {<<{}, {}>>, <<{""}, {}>>, <<{"access_denied"}, {}>>,
   <<{"access_denied"}, {"User cancelled"}>>, <<{"login_required"}, {""}>>}

CallbackUrls ==
  {[parses |-> FALSE]} \cup
  {[parses |-> TRUE,
    searchParams |-> Object([error |-> ed[1], error_description |-> ed[2],
                             state |-> s, id_token |-> t])] :
     ed \in ErrorParams,
     s \in Some({<<>>, StateAB, StateBA, StateABC}),
     t \in Some(Tokens)}

Validations ==
  {[state |-> StateAB, nonce |-> NonceCD],
   [state |-> <<>>, nonce |-> NonceCD],
   [state |-> StateAB, nonce |-> <<>>]}

(***************************************************************************)
(* Specification of the Use-flow callback handling                         *)
(***************************************************************************)
NotCalled == [called |-> FALSE]

NoCall == [fn |-> "none"]

\* the parts of the state that a specification leaves untouched
NoRandom == [available |-> TRUE, drawn |-> <<>>]

NoNetwork == [requests |-> <<>>]

NoPar == [c \in Clients |-> [pc |-> "idle"]]

NoFlows == <<>>

Init ==
  /\ client = [c \in Clients |-> NewAgeKey(Configs[c])]
  /\ clock = 0
  /\ callbackUrl \in CallbackUrls
  /\ validation \in Validations
  /\ outcome = [c \in Clients |-> NotCalled]
  /\ call = NoCall
  /\ random = NoRandom
  /\ network = NoNetwork
  /\ par = NoPar
  /\ flows = NoFlows

\* a handling that uses the stored pair up: once a handling has returned a
\* result, every later one is refused as a state mismatch
UseHandleCallback_once(c) ==
  /\ outcome' = [outcome EXCEPT ![c] =
       [called |-> TRUE, at |-> clock,
        result |->
          IF \E d \in Clients :
               outcome[d].called /\ outcome[d].result.kind = "return"
          THEN Throw(StateMismatchError, <<"error", "state">>)
          ELSE handleCallback(client[c], callbackUrl, validation)]]
  /\ UNCHANGED <<client, clock, callbackUrl, validation, call>>
  /\ UNCHANGED <<random, network, par, flows>>

\* the application hands the callback URL and the stored pair to client c
UseHandleCallback(c) ==
  /\ outcome' = [outcome EXCEPT ![c] =
       [called |-> TRUE, at |-> clock,
        result |-> handleCallback(client[c], callbackUrl, validation)]]
  /\ UNCHANGED <<client, clock, callbackUrl, validation, call>>
  /\ UNCHANGED <<random, network, par, flows>>

\* time passes
Tick ==
  /\ clock < MaxTicks * TickMs
  /\ clock' = clock + TickMs
  /\ UNCHANGED <<client, callbackUrl, validation, outcome, call>>
  /\ UNCHANGED <<random, network, par, flows>>

Next == (\E c \in Clients : UseHandleCallback(c)) \/ Tick

Spec == Init /\ [][Next]_vars

TypeOK ==
  /\ clock \in 0..(MaxTicks * TickMs)
  /\ callbackUrl \in CallbackUrls
  /\ validation \in Validations
  /\ \A c \in Clients :
       outcome[c].called => outcome[c].result.kind \in {"return", "throw"}

(***************************************************************************)
(* Specification of direct calls of validateState: the two strings are     *)
(* drawn from all strings of at most MaxLen code units over Chars.         *)
(***************************************************************************)
Chars == {97, 98, 99}

Strings == UNION {[1..n -> Chars] : n \in 0..MaxLen}

InitValidate ==
  /\ client = [c \in Clients |-> NewAgeKey(Configs[c])]
  /\ clock = 0
  /\ callbackUrl = [parses |-> FALSE]
  /\ validation = [state |-> StateAB, nonce |-> NonceCD]
  /\ outcome = [c \in Clients |-> NotCalled]
  /\ random = NoRandom
  /\ network = NoNetwork
  /\ par = NoPar
  /\ flows = NoFlows
  /\ \E received \in Strings, expected \in Strings :
       call = [fn |-> "validateState", received |-> received,
               expected |-> expected, done |-> FALSE]

CallValidateState ==
  /\ call.fn = "validateState"
  /\ ~call.done
  /\ call' = [fn |-> "validateState", received |-> call.received,
              expected |-> call.expected, done |-> TRUE,
              ret |-> validateState(call.received, call.expected)]
  /\ UNCHANGED <<client, clock, callbackUrl, validation, outcome>>
  /\ UNCHANGED <<random, network, par, flows>>

NextValidate == CallValidateState

SpecValidate == InitValidate /\ [][NextValidate]_vars

(***************************************************************************)
(* Vocabulary of the properties, stated on the callback URL, the stored    *)
(* pair and the time of the call, not on the operators of the model.       *)
(***************************************************************************)
Called(c) == outcome[c].called

Result(c) == outcome[c].result

\* the current time in whole seconds when client c handled the callback
NowAt(c) == outcome[c].at \div MsPerSecond

Param(name) == callbackUrl.searchParams[name]

HasParam(name) == callbackUrl.parses /\ name \in DOMAIN callbackUrl.searchParams

\* an error parameter occurs in the query, whatever its value
ErrorPresent == HasParam("error")

\* the callback reports an OIDC error: the error parameter has a value
ErrorGiven == HasParam("error") /\ Param("error") # ""

DescriptionGiven ==
  IF HasParam("error_description") /\ Param("error_description") # ""
  THEN <<Param("error_description")>> ELSE <<>>

\* the callback echoes the expected state: a non-empty state parameter
\* that is the expected state, code unit for code unit
StateMatches ==
  /\ HasParam("state")
  /\ Param("state") # <<>>
  /\ Param("state") = validation.state

TokenPresent == HasParam("id_token") /\ Param("id_token") # <<EmptySegment>>

\* the middle segment of a three-segment token is base64 or base64url of JSON
TokenIsJson ==
  /\ TokenPresent
  /\ Len(Param("id_token")) = 3
  /\ Param("id_token")[2] # EmptySegment
  /\ Param("id_token")[2].chars \in {"std", "url"}
  /\ Param("id_token")[2].text.syntax = "json"

TokenJson == Param("id_token")[2].text.value

\* the token decodes to a payload: its JSON is not one of the values the
\* handler takes for no payload (null, 0, false, the empty string)
TokenDecodes == TokenIsJson /\ TokenJson \notin {JNull, JNum(0), JBool(FALSE), JStr(<<>>)}

Claim(name) ==
  IF TokenJson.t = "object" /\ name \in DOMAIN TokenJson.v
  THEN TokenJson.v[name] ELSE Undefined

\* the token's nonce is a non-empty string that is the expected nonce
NonceMatches ==
  /\ TokenDecodes
  /\ Claim("nonce").t = "string"
  /\ Claim("nonce").v # <<>>
  /\ Claim("nonce").v = validation.nonce

\* exp is absent or not a number, or the time in whole seconds has reached it
ExpiredAt(seconds) ==
  /\ TokenDecodes
  /\ \/ Claim("exp").t # "number"
     \/ seconds >= Claim("exp").v

\* the token carries an age_thresholds claim that is a mapping (or an array)
CarriesAgeThresholds ==
  /\ TokenDecodes
  /\ Claim("age_thresholds").t \in {"object", "array"}

OidcCodes == {"access_denied", "invalid_request", "unauthorized_client", "server_error"}

IsStateMismatch(c) ==
  Result(c).kind = "throw" /\ Result(c).error.name = "StateMismatchError"

IsNonceMismatch(c) ==
  Result(c).kind = "throw" /\ Result(c).error.name = "NonceMismatchError"

IsInvalidToken(c) ==
  Result(c).kind = "throw" /\ Result(c).error.name = "InvalidTokenError"

IsInvalidTokenFor(c, reason) ==
  IsInvalidToken(c) /\ Result(c).error.message = <<reason>>

(***************************************************************************)
(* Properties of UseAgeKeyClient.handleCallback (checked under Spec)       *)
(***************************************************************************)
AllChecksPass(c) ==
  /\ ~ErrorGiven
  /\ StateMatches
  /\ TokenPresent
  /\ TokenDecodes
  /\ NonceMatches
  /\ ~ExpiredAt(NowAt(c))
  /\ CarriesAgeThresholds

C2_AnyErrorParameterFails ==
  \A c \in Clients :
    Called(c) /\ ErrorPresent =>
      /\ Result(c).kind = "throw"
      /\ Result(c).error = mapOidcError(Param("error"), DescriptionGiven)
      /\ Result(c).error.name \notin
           {"StateMismatchError", "NonceMismatchError", "InvalidTokenError"}

\* C2 amended: for every callback URL whose error parameter has a
\* non-empty value, whatever state and id_token it also carries,
\* handleCallback throws the classified OIDC error before it inspects the
\* state or the token, and neither returns nor throws a state-mismatch,
\* nonce-mismatch or invalid-token failure.
C2_NonEmptyErrorFails ==
  \A c \in Clients :
    Called(c) /\ ErrorGiven =>
      /\ Result(c).kind = "throw"
      /\ Result(c).error = mapOidcError(Param("error"), DescriptionGiven)
      /\ Result(c).error.code \in OidcCodes
      /\ Result(c).error.name \notin
           {"StateMismatchError", "NonceMismatchError", "InvalidTokenError"}
      /\ Result(c).checks = <<"error">>

C2_Witness ==
  \E c \in Clients :
    /\ Called(c)
    /\ ErrorGiven
    /\ HasParam("state") /\ Param("state") # <<>> /\ ~StateMatches
    /\ TokenPresent /\ ~TokenDecodes
    /\ Result(c).error.name = "AccessDeniedError"

\* C3: when the callback reports no error and its state parameter is
\* missing, empty or different from the expected state, handleCallback
\* throws the State-mismatch failure whatever id_token the callback carries.
C3_StateMismatch ==
  \A c \in Clients :
    Called(c) /\ callbackUrl.parses /\ ~ErrorGiven /\ ~StateMatches =>
      /\ IsStateMismatch(c)
      /\ Result(c).error.code = "state_mismatch"

C3_Witness ==
  \E c \in Clients :
    /\ Called(c)
    /\ ~ErrorPresent
    /\ HasParam("state")
    /\ Len(Param("state")) = Len(validation.state)
    /\ Param("state") # validation.state
    /\ NonceMatches /\ ~ExpiredAt(NowAt(c)) /\ CarriesAgeThresholds
    /\ IsStateMismatch(c)

\* C4: when the callback reports no error, the state matches and the token
\* decodes, but the token's nonce is missing, not a string, empty or
\* different from the expected nonce, handleCallback throws Nonce-mismatch,
\* a kind other than State-mismatch, even if the token is otherwise valid
\* and unexpired.
C4_NonceMismatch ==
  \A c \in Clients :
    Called(c) /\ ~ErrorGiven /\ StateMatches /\ TokenDecodes /\ ~NonceMatches =>
      /\ IsNonceMismatch(c)
      /\ Result(c).error.code = "nonce_mismatch"
      /\ Result(c).error.code # StateMismatchError.code
      /\ ~IsStateMismatch(c)

C4_Witness ==
  \E c \in Clients :
    /\ Called(c)
    /\ ~ErrorPresent /\ StateMatches /\ TokenDecodes
    /\ Claim("nonce").t = "string"
    /\ Len(Claim("nonce").v) = Len(validation.nonce)
    /\ Claim("nonce").v # validation.nonce
    /\ ~ExpiredAt(NowAt(c)) /\ CarriesAgeThresholds
    /\ IsNonceMismatch(c)

\* C5 as stated: with state and nonce matching exactly, handleCallback
\* throws Invalid-token exactly when the token is expired (the time in
\* whole seconds has reached exp, or exp is absent or not a number).
C5_InvalidTokenExactlyWhenExpired ==
  \A c \in Clients :
    Called(c) /\ StateMatches /\ NonceMatches =>
      (IsInvalidToken(c) <=> ExpiredAt(NowAt(c)))

\* C5 amended: with no error reported and state and nonce matching
\* exactly, handleCallback throws the Invalid-token failure "ID token has
\* expired" exactly when the token is expired: the time in whole seconds is
\* greater than or equal to exp, or exp is absent or not a number.  A token
\* with exp strictly in the future is not rejected for expiry (it is still
\* rejected as Invalid-token when it carries no age_thresholds).
C5_ExpiredExactlyWhenExpRejected ==
  \A c \in Clients :
    Called(c) /\ ~ErrorGiven /\ StateMatches /\ NonceMatches =>
      /\ IsInvalidTokenFor(c, "ID token has expired") <=> ExpiredAt(NowAt(c))
      /\ ~ExpiredAt(NowAt(c)) =>
           \/ Result(c).kind = "return"
           \/ /\ ~CarriesAgeThresholds
              /\ IsInvalidTokenFor(c, "No age_thresholds in ID token")

C5_Witness ==
  \E c \in Clients :
    /\ Called(c)
    /\ ~ErrorPresent /\ StateMatches /\ NonceMatches /\ CarriesAgeThresholds
    /\ Claim("exp").t = "number"
    /\ NowAt(c) = Claim("exp").v
    /\ IsInvalidTokenFor(c, "ID token has expired")

Applicable(c) ==
  IF ~callbackUrl.parses THEN {}
  ELSE {n \in 1..7 :
          \/ n = 1 /\ ErrorGiven
          \/ n = 2 /\ ~StateMatches
          \/ n = 3 /\ ~TokenPresent
          \/ n = 4 /\ TokenPresent /\ ~TokenDecodes
          \/ n = 5 /\ TokenDecodes /\ ~NonceMatches
          \/ n = 6 /\ TokenDecodes /\ ExpiredAt(NowAt(c))
          \/ n = 7 /\ TokenDecodes /\ ~CarriesAgeThresholds}

\* the place in that order of the failure client c reported, 0 for none
Reported(c) ==
  IF Result(c).kind # "throw" THEN 0
  ELSE IF IsStateMismatch(c) THEN 2
  ELSE IF IsInvalidTokenFor(c, "No ID token in callback") THEN 3
  ELSE IF IsInvalidTokenFor(c, "Failed to decode ID token") THEN 4
  ELSE IF IsNonceMismatch(c) THEN 5
  ELSE IF IsInvalidTokenFor(c, "ID token has expired") THEN 6
  ELSE IF IsInvalidTokenFor(c, "No age_thresholds in ID token") THEN 7
  ELSE IF /\ ErrorGiven
          /\ Result(c).error = mapOidcError(Param("error"), DescriptionGiven)
       THEN 1
  ELSE 0

\* C8: when several failures apply to one callback at once, handleCallback
\* reports the first of them in the order OIDC error, state mismatch,
\* missing token, undecodable token, nonce mismatch, expired token, missing
\* age_thresholds; the checks it has gone through are exactly those up to
\* the one that failed.
C8_FirstFailureInOrder ==
  \A c \in Clients :
    Called(c) =>
      \A applicable \in {Applicable(c)}, reported \in {Reported(c)} :
        applicable # {} =>
          /\ reported \in applicable
          /\ \A n \in applicable : reported <= n
          /\ Result(c).checks =
               SubSeq(<<"error", "state", "id_token", "decode", "nonce", "exp",
                        "age_thresholds">>, 1, reported)

C8_Witness ==
  \E c \in Clients :
    /\ Called(c)
    /\ {5, 6} \subseteq Applicable(c)
    /\ Reported(c) = 5

C9_TrueExactlyWhenEqual ==
  (call.fn = "validateState" /\ call.done) =>
    (call.ret <=> call.received = call.expected)

\* C9 amended: validateState(received, expected) returns true exactly when
\* the two strings are equal and not empty: equal non-empty strings compare
\* equal, a differing code unit at any position compares unequal, strings
\* of differing lengths compare unequal, and so does the empty string with
\* itself.
C9_TrueExactlyWhenEqualNonEmpty ==
  (call.fn = "validateState" /\ call.done) =>
    /\ call.ret <=> (call.received = call.expected /\ call.received # <<>>)
    /\ Len(call.received) # Len(call.expected) => ~call.ret
    /\ (\E i \in 1..Len(call.received) :
          i <= Len(call.expected) /\ call.received[i] # call.expected[i])
         => ~call.ret

C9_Witness ==
  /\ call.fn = "validateState" /\ call.done
  /\ Len(call.received) = Len(call.expected)
  /\ Cardinality({i \in 1..Len(call.received) :
                    call.received[i] # call.expected[i]}) = 2
  /\ ~call.ret

(***************************************************************************)
(* Specification of direct calls of mapOidcError                           *)
(***************************************************************************)
OidcErrorValues ==
  {"access_denied", "invalid_request", "unauthorized_client", "server_error",
   "temporarily_unavailable", "unsupported_response_type", "invalid_scope",
   "login_required", "interaction_required", "ACCESS_DENIED", ""}

ErrorDescriptions ==
  {<<>>, <<"User cancelled">>, <<"Client authentication failed">>,
   <<"Try again later">>, <<"Unknown scope">>}

InitOidc ==
  /\ client = [c \in Clients |-> NewAgeKey(Configs[c])]
  /\ clock = 0
  /\ callbackUrl = [parses |-> FALSE]
  /\ validation = [state |-> StateAB, nonce |-> NonceCD]
  /\ outcome = [c \in Clients |-> NotCalled]
  /\ random = NoRandom
  /\ network = NoNetwork
  /\ par = NoPar
  /\ flows = NoFlows
  /\ \E error \in OidcErrorValues, errorDescription \in ErrorDescriptions :
       call = [fn |-> "mapOidcError", error |-> error,
               errorDescription |-> errorDescription, done |-> FALSE]

CallMapOidcError ==
  /\ call.fn = "mapOidcError"
  /\ ~call.done
  /\ call' = [fn |-> "mapOidcError", error |-> call.error,
              errorDescription |-> call.errorDescription, done |-> TRUE,
              ret |-> mapOidcError(call.error, call.errorDescription)]
  /\ UNCHANGED <<client, clock, callbackUrl, validation, outcome>>
  /\ UNCHANGED <<random, network, par, flows>>

NextOidc == CallMapOidcError

SpecOidc == InitOidc /\ [][NextOidc]_vars

\* the class and the code tag of the kind each OIDC error code belongs to
KindOfOidcCode(error) ==
  CASE error = "access_denied" -> <<"AccessDeniedError", "access_denied">>
    [] error = "invalid_request" -> <<"InvalidRequestError", "invalid_request">>
    [] error = "unauthorized_client" ->
         <<"UnauthorizedClientError", "unauthorized_client">>
    [] error \in {"server_error", "temporarily_unavailable"} ->
         <<"ServerError", "server_error">>
    [] OTHER -> <<"AgeKeyError", "invalid_request">>

\* C11: mapOidcError classifies every OIDC error code into one kind:
\* access_denied gives Access-denied carrying the server's description,
\* invalid_request gives Invalid-request, unauthorized_client gives
\* Unauthorized-client, server_error and temporarily_unavailable give
\* Server-error, and every other code gives a failure tagged
\* invalid_request; a description the server gave is the message (for
\* temporarily_unavailable, the end of the message).
C11_OidcClassification ==
  (call.fn = "mapOidcError" /\ call.done) =>
    /\ <<call.ret.name, call.ret.code>> = KindOfOidcCode(call.error)
    /\ call.error = "access_denied" =>
         call.ret.errorDescription = call.errorDescription
    /\ (call.errorDescription # <<>> /\ call.error # "temporarily_unavailable")
         => call.ret.message = call.errorDescription
    /\ (call.errorDescription # <<>> /\ call.error = "temporarily_unavailable")
         => call.ret.message[Len(call.ret.message)] = call.errorDescription[1]

C11_Witness ==
  /\ call.fn = "mapOidcError" /\ call.done
  /\ call.error = "temporarily_unavailable"
  /\ call.errorDescription # <<>>
  /\ call.ret.name = "ServerError"

(***************************************************************************)
(* utils/state.ts: CreateAgeKeyClient.handleCallback, and the              *)
(* specification of the Create-flow callback handling                      *)
(***************************************************************************)
\* handleCallback that raises the mapped OIDC error as the Use flow does
Create_handleCallback_raises(self, url) ==
  IF ~url.parses THEN Throw(TypeError, <<>>)
  ELSE
  LET params == url.searchParams
      errorDescription ==
        IF ParamSet(params, "error_description")
        THEN <<params["error_description"]>> ELSE <<>>
  IN
  IF ParamSet(params, "error")
  THEN Throw(mapOidcError(params["error"], errorDescription), <<"error">>)
  ELSE Return([success |-> TRUE], <<"error">>)

Create_handleCallback(self, url) ==
  IF ~url.parses THEN Throw(TypeError, <<>>)
  ELSE
  LET params == url.searchParams
      errorDescription ==
        IF ParamSet(params, "error_description")
        THEN <<params["error_description"]>> ELSE <<>>
  IN
  IF ParamSet(params, "error")
  THEN Return([success |-> FALSE, error |-> params["error"],
               errorDescription |-> errorDescription], <<"error">>)
  ELSE Return([success |-> TRUE], <<"error">>)

InitCreateCallback ==
  /\ client = [c \in Clients |-> NewAgeKey(Configs[c])]
  /\ clock = 0
  /\ callbackUrl \in CallbackUrls
  /\ validation = [state |-> StateAB, nonce |-> NonceCD]
  /\ outcome = [c \in Clients |-> NotCalled]
  /\ call = NoCall
  /\ random = NoRandom
  /\ network = NoNetwork
  /\ par = NoPar
  /\ flows = NoFlows

\* the application hands the callback URL to the Create client of c
CreateHandleCallback(c) ==
  /\ outcome' = [outcome EXCEPT ![c] =
       [called |-> TRUE, at |-> clock,
        result |-> Create_handleCallback(client[c], callbackUrl)]]
  /\ UNCHANGED <<client, clock, callbackUrl, validation, call>>
  /\ UNCHANGED <<random, network, par, flows>>

NextCreateCallback == \E c \in Clients : CreateHandleCallback(c)

SpecCreateCallback == InitCreateCallback /\ [][NextCreateCallback]_vars

\* C12 as stated: Create-flow handleCallback never raises for a URL that
\* parses; it returns success=false with the error code and description
\* when an error parameter is present and success=true when none is.
C12_FailureExactlyWhenErrorPresent ==
  \A c \in Clients :
    (Called(c) /\ callbackUrl.parses) =>
      /\ Result(c).kind = "return"
      /\ Result(c).value.success = ~ErrorPresent

\* C12, amended: Create-flow handleCallback never raises for a URL that
\* parses; it returns success=false with the error code and the given
\* description exactly when the error parameter has a non-empty value, and
\* success=true alone otherwise; state and id_token have no influence.
C12_FailureExactlyWhenErrorGiven ==
  \A c \in Clients :
    (Called(c) /\ callbackUrl.parses) =>
      /\ Result(c).kind = "return"
      /\ Result(c).value =
           IF ErrorGiven
           THEN [success |-> FALSE, error |-> Param("error"),
                 errorDescription |-> DescriptionGiven]
           ELSE [success |-> TRUE]

C12_Witness ==
  \E c \in Clients :
    /\ Called(c)
    /\ ErrorGiven /\ DescriptionGiven # <<>>
    /\ HasParam("state") /\ HasParam("id_token")
    /\ Result(c).kind = "return"
    /\ ~Result(c).value.success

(***************************************************************************)
(* constants.ts: defaults, scopes and response types                       *)
(***************************************************************************)
\* length of a generated token in bytes
tokenLength == 32

\* lifetime of a PAR request_uri in seconds when the response states none
parExpiry == 90

DEFAULTS == [tokenLength |-> tokenLength, parExpiry |-> parExpiry]

SCOPES == [openid |-> "openid", upgrade |-> "openid agekey.upgrade"]

RESPONSE_TYPES == [idToken |-> "id_token", none |-> "none"]

(***************************************************************************)
(* errors.ts: NetworkError, and the characters of the name of every error  *)
(* class that can be thrown inside the transport exchange                  *)
(***************************************************************************)
\* new NetworkError(message, cause)
NetworkError(message, cause) ==
  [name |-> "NetworkError", code |-> "network_error",
   message |-> OrElse(message, <<"Network error during API request.">>),
   cause |-> cause]

\* error.name, character by character
NameChars ==
  [Error |-> <<"E", "r", "r", "o", "r">>,
   TypeError |-> <<"T", "y", "p", "e", "E", "r", "r", "o", "r">>,
   SyntaxError |-> <<"S", "y", "n", "t", "a", "x", "E", "r", "r", "o", "r">>,
   AbortError |-> <<"A", "b", "o", "r", "t", "E", "r", "r", "o", "r">>,
   AgeKeyError |-> <<"A", "g", "e", "K", "e", "y", "E", "r", "r", "o", "r">>,
   StateMismatchError |-> <<"S", "t", "a", "t", "e", "M", "i", "s", "m", "a", "t", "c", "h", "E", "r", "r", "o", "r">>,
   NonceMismatchError |-> <<"N", "o", "n", "c", "e", "M", "i", "s", "m", "a", "t", "c", "h", "E", "r", "r", "o", "r">>,
   AccessDeniedError |-> <<"A", "c", "c", "e", "s", "s", "D", "e", "n", "i", "e", "d", "E", "r", "r", "o", "r">>,
   InvalidTokenError |-> <<"I", "n", "v", "a", "l", "i", "d", "T", "o", "k", "e", "n", "E", "r", "r", "o", "r">>,
   InvalidRequestError |-> <<"I", "n", "v", "a", "l", "i", "d", "R", "e", "q", "u", "e", "s", "t", "E", "r", "r", "o", "r">>,
   UnauthorizedClientError |-> <<"U", "n", "a", "u", "t", "h", "o", "r", "i", "z", "e", "d", "C", "l", "i", "e", "n", "t", "E", "r", "r", "o", "r">>,
   ServerError |-> <<"S", "e", "r", "v", "e", "r", "E", "r", "r", "o", "r">>,
   NetworkError |-> <<"N", "e", "t", "w", "o", "r", "k", "E", "r", "r", "o", "r">>]

\* s.includes(t) on sequences of characters
Includes(s, t) ==
  \E i \in 0..(Len(s) - Len(t)) : SubSeq(s, i + 1, i + Len(t)) = t

(***************************************************************************)
(* utils/state.ts: generateToken.  crypto is the random source; array is   *)
(* what crypto.getRandomValues leaves in the Uint8Array.  A token is the   *)
(* sequence of its UTF-16 code units.                                      *)
(***************************************************************************)
\* the code unit of the hexadecimal digit n: "0".."9", "a".."f"
HexDigit(n) == IF n < 10 THEN 48 + n ELSE 87 + n

\* byte.toString(16)
ToString16(byte) ==
  IF byte < 16 THEN <<HexDigit(byte)>>
  ELSE <<HexDigit(byte \div 16), HexDigit(byte % 16)>>

\* s.padStart(2, "0")
PadStart2(s) == IF Len(s) < 2 THEN <<48>> \o s ELSE s

RECURSIVE Join(_)
\* parts.join("")
Join(parts) == IF parts = <<>> THEN <<>> ELSE Head(parts) \o Join(Tail(parts))

CryptoUnavailable ==
  [name |-> "Error",
   message |-> <<"Crypto API not available. Please use a modern browser or Node.js 15+.">>]

\* generateToken that does not pad a byte below 16 to two digits
generateToken_noPad(crypto, array) ==
  IF crypto.available
  THEN Return(Join([i \in 1..Len(array) |-> ToString16(array[i])]), <<>>)
  ELSE Throw(CryptoUnavailable, <<>>)

generateToken(crypto, array) ==
  IF crypto.available
  THEN Return(Join([i \in 1..Len(array) |-> PadStart2(ToString16(array[i]))]),
              <<>>)
  ELSE Throw(CryptoUnavailable, <<>>)

generateState(crypto, array) == generateToken(crypto, array)

generateNonce(crypto, array) == generateToken(crypto, array)

\* the bytes that vary in the arrays the random source hands out
RandomBytes == {1, 17}

\* Uint8Array(DEFAULTS.tokenLength) after crypto.getRandomValues
RandomArrays ==
  {[i \in 1..DEFAULTS.tokenLength |->
      IF i = 1 THEN a ELSE IF i = 2 THEN b ELSE 0] : a, b \in RandomBytes}

Range(f) == {f[i] : i \in DOMAIN f}

\* the arrays a cryptographic random source can still hand out: it does
\* not repeat a value it handed out before
GetRandomValues == RandomArrays \ {d.array : d \in Range(random.drawn)}

(***************************************************************************)
(* utils/state.ts: CreateAgeKeyClient.  pushAuthorizationRequest is an     *)
(* async function: it runs to its first await (fetch), resumes when the    *)
(* fetch settles, awaits response.json() and resumes when that settles.    *)
(* Each part is an operator that gives the outcome of the part, the        *)
(* requests it sent and the random arrays it consumed.                     *)
(***************************************************************************)
\* the function is suspended at an await
Await(on) == [kind |-> "await", on |-> on]

\* !this.config.clientSecret: the secret is not configured, or is empty
NoClientSecret(self) ==
  \/ self.config.clientSecret = {}
  \/ \A secret \in self.config.clientSecret :
       secret.prefix = "" /\ secret.rest = ""

\* the value JSON.stringify writes for value: at every depth the members
\* of an object that are undefined are left out, and an element of an
\* array that is undefined is written as null
RECURSIVE Written(_)
Written(value) ==
  CASE value.t = "object" ->
         JObj([k \in {m \in DOMAIN value.v : value.v[m] # Undefined}
                 |-> Written(value.v[k])])
    [] value.t = "array" ->
         JArr([i \in DOMAIN value.v |->
                 IF value.v[i] = Undefined THEN JNull ELSE Written(value.v[i])])
    [] OTHER -> value

\* JSON.stringify(value) of an object or an array
JsonStringify(value) == JsonText(Written(value))

\* a Date whose time value is NaN, as new Date("") gives
InvalidDate == [invalid |-> TRUE]

\* date.toISOString() throws for a Date whose time value is NaN
toISOStringThrows(date) == date = InvalidDate

RangeError == [name |-> "RangeError", message |-> <<"Invalid time value">>]

\* date.toISOString()
toISOString(date) == date.iso

AuthorizationDetails(options) ==
  JArr(<<JObj(
    [type |-> JStr(<<"age_verification">>),
     method |-> JStr(<<options.method>>),
     age |-> options.age,
     verified_at |-> JStr(toISOString(options.verifiedAt)),
     verification_id |-> JStr(<<options.verificationId>>),
     provenance |-> options.provenance,
     attributes |-> IF options.attributes # {}
                    THEN CHOOSE a \in options.attributes : TRUE
                    ELSE Undefined])>>)

\* the POST that pushAuthorizationRequest hands to fetch
ParRequest(self, options, state) ==
  [url |-> self.environment.parEndpoint,
   method |-> "POST",
   headers |-> [ContentType |-> "application/x-www-form-urlencoded"],
   body |-> <<
     <<"client_id", self.config.clientId>>,
     <<"client_secret", CHOOSE secret \in self.config.clientSecret : TRUE>>,
     <<"redirect_uri", self.config.redirectUri>>,
     <<"response_type", RESPONSE_TYPES.none>>,
     <<"scope", IF options.enableUpgrade THEN SCOPES.upgrade ELSE SCOPES.openid>>,
     <<"state", state>>,
     <<"authorization_details", JsonStringify(AuthorizationDetails(options))>> >>]

MissingSecret ==
  InvalidRequestError(<<"Client secret is required for Create AgeKey flow. ",
                        "This method must be called server-side.">>)

\* pushAuthorizationRequest that generates the state before it looks at
\* the client secret
pushAuthorizationRequest_stateFirst(self, crypto, array, options) ==
  LET state == generateState(crypto, array) IN
  IF state.kind = "throw"
  THEN [outcome |-> state, drawn |-> <<>>, sent |-> <<>>]
  ELSE IF NoClientSecret(self)
  THEN [outcome |-> Throw(MissingSecret, <<>>), drawn |-> <<array>>,
        sent |-> <<>>]
  ELSE [outcome |-> Await("fetch"), drawn |-> <<array>>,
        sent |-> <<ParRequest(self, options, state.value)>>]

\* pushAuthorizationRequest that posts the request a second time
pushAuthorizationRequest_sendsTwice(self, crypto, array, options) ==
  IF NoClientSecret(self)
  THEN [outcome |-> Throw(MissingSecret, <<>>), drawn |-> <<>>, sent |-> <<>>]
  ELSE
  LET state == generateState(crypto, array) IN
  IF state.kind = "throw"
  THEN [outcome |-> state, drawn |-> <<>>, sent |-> <<>>]
  ELSE [outcome |-> Await("fetch"), drawn |-> <<array>>,
        sent |-> <<ParRequest(self, options, state.value),
                   ParRequest(self, options, state.value)>>]

\* pushAuthorizationRequest up to the call of fetch
pushAuthorizationRequest(self, crypto, array, options) ==
  IF NoClientSecret(self)
  THEN [outcome |-> Throw(MissingSecret, <<>>), drawn |-> <<>>, sent |-> <<>>]
  ELSE
  LET state == generateState(crypto, array) IN
  IF state.kind = "throw"
  THEN [outcome |-> state, drawn |-> <<>>, sent |-> <<>>]
  ELSE [outcome |-> Await("fetch"), drawn |-> <<array>>,
        sent |-> <<ParRequest(self, options, state.value)>>]

\* the catch block of pushAuthorizationRequest; every value thrown in the
\* try block is an Error
pushAuthorizationRequest_catch(error) ==
  IF Includes(NameChars[error.name], <<"A", "g", "e", "K", "e", "y">>)
  THEN Throw(error, <<>>)
  ELSE Throw(NetworkError(<<"Failed to connect to AgeKey PAR endpoint">>, error),
             <<>>)

\* response.ok
Ok(response) == response.status \in 200..299

\* a string member of the response body as the pieces of a message
Pieces(x) == IF Truthy(x) THEN x.v ELSE <<>>

NullProperty ==
  [name |-> "TypeError",
   message |-> <<"Cannot read properties of null (reading 'error')">>]

\* the try block that returns the stated expires_in whatever it is
pushAuthorizationRequest_try_statedExpiry(response, data) ==
  IF data = JNull THEN Throw(NullProperty, <<>>)
  ELSE
  LET error == Prop(data, "error")
      error_description == Pieces(Prop(data, "error_description"))
      request_uri == Prop(data, "request_uri")
      expires_in == Prop(data, "expires_in")
  IN
  IF ~Ok(response) \/ Truthy(error)
  THEN IF response.status = 401 \/ error = JStr(<<"unauthorized_client">>)
       THEN Throw(UnauthorizedClientError(error_description), <<>>)
       ELSE IF Truthy(error)
       THEN Throw(mapOidcError(error.v[1], error_description), <<>>)
       ELSE Throw(ServerError(<<"PAR request failed: ", ToString(response.status)>>), <<>>)
  ELSE IF ~Truthy(request_uri)
  THEN Throw(ServerError(<<"PAR response missing request_uri">>), <<>>)
  ELSE Return([requestUri |-> request_uri.v,
               expiresIn |-> IF expires_in # Undefined THEN expires_in.v
                             ELSE DEFAULTS.parExpiry], <<>>)

\* the try block of pushAuthorizationRequest from the parsed body on
pushAuthorizationRequest_try(response, data) ==
  IF data = JNull THEN Throw(NullProperty, <<>>)
  ELSE
  LET error == Prop(data, "error")
      error_description == Pieces(Prop(data, "error_description"))
      request_uri == Prop(data, "request_uri")
      expires_in == Prop(data, "expires_in")
  IN
  IF ~Ok(response) \/ Truthy(error)
  THEN IF response.status = 401 \/ error = JStr(<<"unauthorized_client">>)
       THEN Throw(UnauthorizedClientError(error_description), <<>>)
       ELSE IF Truthy(error)
       THEN Throw(mapOidcError(error.v[1], error_description), <<>>)
       ELSE Throw(ServerError(<<"PAR request failed: ", ToString(response.status)>>), <<>>)
  ELSE IF ~Truthy(request_uri)
  THEN Throw(ServerError(<<"PAR response missing request_uri">>), <<>>)
  ELSE Return([requestUri |-> request_uri.v,
               expiresIn |-> IF Truthy(expires_in) THEN expires_in.v
                             ELSE DEFAULTS.parExpiry], <<>>)

\* pushAuthorizationRequest from the resolution of response.json() on
pushAuthorizationRequest_data(response, data) ==
  LET attempt == pushAuthorizationRequest_try(response, data) IN
  IF attempt.kind = "throw"
  THEN pushAuthorizationRequest_catch(attempt.error)
  ELSE attempt

\* CreateAgeKeyClient.getAuthorizationUrl(requestUri, { enableUpgrade })
\* getAuthorizationUrl that asks for the upgrade scope but never sets can_upgrade
Create_getAuthorizationUrl_noCanUpgrade(self, requestUri, options) ==
  [endpoint |-> self.environment.createEndpoint,
   params |-> <<
     <<"client_id", self.config.clientId>>,
     <<"redirect_uri", self.config.redirectUri>>,
     <<"response_type", RESPONSE_TYPES.none>>,
     <<"scope", IF options.enableUpgrade THEN SCOPES.upgrade ELSE SCOPES.openid>>,
     <<"request_uri", requestUri>> >>]

\* getAuthorizationUrl that authenticates the client in the URL as the PAR
\* request does in its body
Create_getAuthorizationUrl_withSecret(self, requestUri, options) ==
  [endpoint |-> self.environment.createEndpoint,
   params |-> <<
     <<"client_id", self.config.clientId>> >>
     \o [i \in 1..Cardinality(self.config.clientSecret) |->
           <<"client_secret", CHOOSE secret \in self.config.clientSecret : TRUE>>]
     \o <<
     <<"redirect_uri", self.config.redirectUri>>,
     <<"response_type", RESPONSE_TYPES.none>>,
     <<"scope", IF options.enableUpgrade THEN SCOPES.upgrade ELSE SCOPES.openid>>,
     <<"request_uri", requestUri>> >>
     \o IF options.enableUpgrade THEN << <<"can_upgrade", "true">> >> ELSE <<>>]

Create_getAuthorizationUrl(self, requestUri, options) ==
  [endpoint |-> self.environment.createEndpoint,
   params |-> <<
     <<"client_id", self.config.clientId>>,
     <<"redirect_uri", self.config.redirectUri>>,
     <<"response_type", RESPONSE_TYPES.none>>,
     <<"scope", IF options.enableUpgrade THEN SCOPES.upgrade ELSE SCOPES.openid>>,
     <<"request_uri", requestUri>> >>
     \o IF options.enableUpgrade THEN << <<"can_upgrade", "true">> >> ELSE <<>>]

\* initiate that builds the URL without passing enableUpgrade on
initiate_plainScope(self, options, parResult) ==
  IF parResult.kind = "throw" THEN parResult
  ELSE Return([authUrl |-> Create_getAuthorizationUrl(
                             self, parResult.value.requestUri,
                             [enableUpgrade |-> FALSE]),
               requestUri |-> parResult.value.requestUri,
               expiresIn |-> parResult.value.expiresIn], <<>>)

\* initiate from the settling of its pushAuthorizationRequest on
initiate(self, options, parResult) ==
  IF parResult.kind = "throw" THEN parResult
  ELSE Return([authUrl |-> Create_getAuthorizationUrl(
                             self, parResult.value.requestUri,
                             [enableUpgrade |-> options.enableUpgrade]),
               requestUri |-> parResult.value.requestUri,
               expiresIn |-> parResult.value.expiresIn], <<>>)

(***************************************************************************)
(* Specification of the PAR exchange.  Client c1 is configured with a      *)
(* client secret and c2 without one; each makes one call of                *)
(* pushAuthorizationRequest or of initiate, and the transport answers.     *)
(* par[c] is the position of the call of c: idle, suspended at fetch,      *)
(* suspended at json, or done with its result.                             *)
(***************************************************************************)
CreateConfigs ==
  [c \in Clients |->
     [clientId |-> Configs[c].clientId,
      redirectUri |-> Configs[c].redirectUri,
      apiBaseUrl |-> Configs[c].apiBaseUrl,
      clientSecret |-> IF c = "c1"
                       THEN {[prefix |-> "sk_test_", rest |-> "789012"]}
                       ELSE {}]]

\* options.provenance: a value of AUTHORIZATION_PROVENANCE, or none where the
\* caller's object has no such member
Provenances == {Undefined, JStr(<<"/connect_id">>)}

CreateOptions ==
  {[method |-> "id_doc_scan",
    age |-> JObj([date_of_birth |-> JStr(<<"2000-01-15">>)]),
    verifiedAt |-> [iso |-> <<"2024-01-15", "T", "12:00:00.000Z">>],
    verificationId |-> "txn_123",
    provenance |-> p,
    attributes |-> {},
    enableUpgrade |-> u] : u \in BOOLEAN, p \in Provenances}

RequestUri == <<"urn:ietf:params:oauth:request_uri:abc123">>

\* the bodies the PAR endpoint, or whatever stands in its place, answers
ParBodies ==
  {NotJsonText, JsonText(JNull)} \cup
  {JsonText(JObj(Object([request_uri |-> r, expires_in |-> x, error |-> e,
                         error_description |-> d]))) :
     r \in Some({JStr(<<>>), JStr(RequestUri)}),
     x \in Some({JNum(0), JNum(60), JNum(90)}),
     e \in Some({JStr(<<>>), JStr(<<"unauthorized_client">>),
                 JStr(<<"invalid_request">>), JStr(<<"server_error">>),
                 JStr(<<"invalid_scope">>)}),
     d \in Some({JStr(<<"Client authentication failed">>)})}

StatusCodes == {200, 400, 401, 500}

Responses == [status : StatusCodes, body : ParBodies]

\* what fetch rejects with
FetchErrors ==
  {[name |-> "TypeError", message |-> <<"fetch failed">>],
   [name |-> "AbortError", message |-> <<"This operation was aborted">>]}

\* what response.json() rejects with for a body that is not JSON
SyntaxError ==
  [name |-> "SyntaxError", message |-> <<"Unexpected token < in JSON">>]

InitPar ==
  /\ client = [c \in Clients |-> NewAgeKey(CreateConfigs[c])]
  /\ clock = 0
  /\ callbackUrl = [parses |-> FALSE]
  /\ validation = [state |-> StateAB, nonce |-> NonceCD]
  /\ outcome = [c \in Clients |-> NotCalled]
  /\ call = NoCall
  /\ random \in {[available |-> a, drawn |-> <<>>] : a \in BOOLEAN}
  /\ network = NoNetwork
  /\ par = NoPar
  /\ flows = NoFlows

\* the result the caller of op gets for the result of the push
Settle(c, op, options, result) ==
  IF op = "initiate" THEN initiate(client[c], options, result) ELSE result

\* client c starts op: the function runs up to its first await
Begin(c, op) ==
  /\ par[c].pc = "idle"
  /\ \E options \in CreateOptions, array \in GetRandomValues :
       LET step == pushAuthorizationRequest(client[c], random, array, options)
       IN
       /\ random' = [random EXCEPT !.drawn =
            @ \o [i \in DOMAIN step.drawn |-> [by |-> c, array |-> step.drawn[i]]]]
       /\ network' = [network EXCEPT !.requests =
            @ \o [i \in DOMAIN step.sent |-> [by |-> c, request |-> step.sent[i]]]]
       /\ par' = [par EXCEPT ![c] =
            IF step.outcome.kind = "await"
            THEN [pc |-> "fetch", op |-> op, options |-> options]
            ELSE [pc |-> "done", op |-> op, options |-> options,
                  ended |-> "start",
                  result |-> Settle(c, op, options, step.outcome)]]
  /\ UNCHANGED <<client, clock, callbackUrl, validation, outcome, call, flows>>

PushAuthorizationRequest(c) == Begin(c, "pushAuthorizationRequest")

Initiate(c) == Begin(c, "initiate")

\* the transport fails: fetch rejects and the catch block runs
FetchRejects(c) ==
  /\ par[c].pc = "fetch"
  /\ \E error \in FetchErrors :
       par' = [par EXCEPT ![c] =
         [pc |-> "done", op |-> @.op, options |-> @.options,
          ended |-> "fetch", rejection |-> error,
          result |-> Settle(c, @.op, @.options,
                            pushAuthorizationRequest_catch(error))]]
  /\ UNCHANGED <<client, clock, callbackUrl, validation, outcome, call>>
  /\ UNCHANGED <<random, network, flows>>

\* the transport answers: fetch resolves and response.json() is awaited
FetchResolves(c) ==
  /\ par[c].pc = "fetch"
  /\ \E response \in Responses :
       par' = [par EXCEPT ![c] =
         [pc |-> "json", op |-> @.op, options |-> @.options,
          response |-> response]]
  /\ UNCHANGED <<client, clock, callbackUrl, validation, outcome, call>>
  /\ UNCHANGED <<random, network, flows>>

\* response.json() settles and the rest of the function runs
JsonSettles(c) ==
  /\ par[c].pc = "json"
  /\ par' = [par EXCEPT ![c] =
       [pc |-> "done", op |-> @.op, options |-> @.options,
        ended |-> "json", response |-> @.response,
        result |-> Settle(c, @.op, @.options,
          IF JsonParseThrows(@.response.body)
          THEN pushAuthorizationRequest_catch(SyntaxError)
          ELSE pushAuthorizationRequest_data(@.response,
                                             JsonParse(@.response.body)))]]
  /\ UNCHANGED <<client, clock, callbackUrl, validation, outcome, call>>
  /\ UNCHANGED <<random, network, flows>>

NextPar ==
  \E c \in Clients :
    \/ PushAuthorizationRequest(c)
    \/ Initiate(c)
    \/ FetchRejects(c)
    \/ FetchResolves(c)
    \/ JsonSettles(c)

SpecPar == InitPar /\ [][NextPar]_vars

(***************************************************************************)
(* Vocabulary of the properties of the PAR exchange                        *)
(***************************************************************************)
\* the requests that the call of client c has handed to the transport
RequestsBy(c) == {i \in DOMAIN network.requests : network.requests[i].by = c}

\* the random arrays that the call of client c has consumed
DrawsBy(c) == {i \in DOMAIN random.drawn : random.drawn[i].by = c}

SecretConfigured(c) == client[c].config.clientSecret # {}

Done(c) == par[c].pc = "done"

Raised(c, name) ==
  /\ Done(c)
  /\ par[c].result.kind = "throw"
  /\ par[c].result.error.name = name

\* the call of c got a response whose body is JSON
Answered(c) ==
  /\ Done(c)
  /\ par[c].ended = "json"
  /\ par[c].response.body.syntax = "json"

Body(c) == par[c].response.body.value

\* the member of the answered body, Undefined when the body has none
Member(c, key) ==
  IF Body(c).t = "object" /\ key \in DOMAIN Body(c).v
  THEN Body(c).v[key] ELSE Undefined

\* the body states a non-empty value for the member
States(c, key) == Member(c, key) \notin {Undefined, JStr(<<>>)}

\* C13: on a client configured without a client secret,
\* pushAuthorizationRequest and initiate fail with Invalid-request before
\* any state token is generated and before the transport is contacted: the
\* call draws no random token and sends no request.
C13_NoSecretFailsBeforeAnyEffect ==
  \A c \in Clients :
    (~SecretConfigured(c) /\ par[c].pc # "idle") =>
      /\ Raised(c, "InvalidRequestError")
      /\ par[c].result.error.code = "invalid_request"
      /\ DrawsBy(c) = {}
      /\ RequestsBy(c) = {}

C13_Witness ==
  \E c, d \in Clients :
    /\ ~SecretConfigured(c)
    /\ par[c].pc = "done" /\ par[c].op = "initiate"
    /\ Raised(c, "InvalidRequestError")
    /\ RequestsBy(c) = {}
    /\ RequestsBy(d) # {}

\* C14: whenever the PAR response body omits request_uri,
\* pushAuthorizationRequest raises the Server-error kind, whatever the
\* HTTP status of the response.
C14_MissingRequestUriIsServerError ==
  \A c \in Clients :
    (Answered(c) /\ Member(c, "request_uri") = Undefined) =>
      Raised(c, "ServerError")

\* the exchange of c failed by what the server answered in a JSON object
AnsweredObject(c) == Answered(c) /\ Body(c).t = "object"

\* C15: HTTP 401 or the OIDC code unauthorized_client reaches the caller as
\* the Unauthorized-client kind, and a non-successful status without an
\* OIDC error code reaches the caller as the Server-error kind.
C15_FailedExchangeClassified ==
  \A c \in Clients :
    AnsweredObject(c) =>
      /\ (\/ par[c].response.status = 401
          \/ Member(c, "error") = JStr(<<"unauthorized_client">>))
           => Raised(c, "UnauthorizedClientError")
      /\ (/\ ~Ok(par[c].response)
          /\ par[c].response.status # 401
          /\ ~States(c, "error"))
           => Raised(c, "ServerError")

\* the kinds of failure the SDK defines
TypedKinds ==
  {"AgeKeyError", "StateMismatchError", "NonceMismatchError",
   "AccessDeniedError", "InvalidTokenError", "InvalidRequestError",
   "UnauthorizedClientError", "ServerError", "NetworkError"}

\* fetch rejected, or reading the body threw: it is not JSON, or it is null
TransportFailed(c) ==
  /\ Done(c)
  /\ \/ par[c].ended = "fetch"
     \/ par[c].ended = "json" /\ par[c].response.body.syntax # "json"
     \/ par[c].ended = "json" /\ par[c].response.body = JsonText(JNull)

\* C16: pushAuthorizationRequest raises the Network-error kind exactly
\* when the transport call or the reading of its body failed with an
\* exception that is none of the typed kinds, and then keeps that exception
\* as the cause; a failure already classified is never wrapped into
\* Network-error.
C16_NetworkErrorExactlyForTransportFailure ==
  \A c \in Clients :
    (Done(c) /\ par[c].ended # "start") =>
      /\ Raised(c, "NetworkError") <=> TransportFailed(c)
      /\ Raised(c, "NetworkError") =>
           par[c].result.error.cause.name \notin TypedKinds

\* the response of c is successful, carries request_uri and no error
Granted(c) ==
  /\ AnsweredObject(c)
  /\ Ok(par[c].response)
  /\ States(c, "request_uri")
  /\ ~States(c, "error")

\* C17 as stated: on a successful response that carries request_uri and no
\* error, requestUri is the response's request_uri and expiresIn is the
\* response's expires_in whenever it states one, 90 only when it states none.
C17_StatedExpiryReturned ==
  \A c \in Clients :
    Granted(c) =>
      /\ par[c].result.kind = "return"
      /\ par[c].result.value.requestUri = Member(c, "request_uri").v
      /\ par[c].result.value.expiresIn =
           IF Member(c, "expires_in") # Undefined
           THEN Member(c, "expires_in").v ELSE parExpiry

\* C17, amended: on a successful response that carries request_uri and no
\* error, requestUri is the response's request_uri and expiresIn is the
\* response's expires_in whenever it states a non-zero one; expiresIn is
\* the default 90 when the response states no expiry or states 0.
C17_NonZeroExpiryReturned ==
  \A c \in Clients :
    Granted(c) =>
      /\ par[c].result.kind = "return"
      /\ par[c].result.value.requestUri = Member(c, "request_uri").v
      /\ par[c].result.value.expiresIn =
           IF Member(c, "expires_in") \notin {Undefined, JNum(0)}
           THEN Member(c, "expires_in").v ELSE parExpiry

C17_Witness ==
  \E c \in Clients :
    /\ Granted(c)
    /\ Member(c, "expires_in") = JNum(60)
    /\ par[c].result.kind = "return"
    /\ par[c].result.value.expiresIn = 60
    /\ par[c].result.value.requestUri = RequestUri

\* C18: each call of pushAuthorizationRequest contacts the transport at
\* most once: a call that is suspended in the exchange, or that ended after
\* it with a failure or with a result, has sent exactly one request, and a
\* call that failed before the exchange has sent none.
C18_AtMostOneRequestPerCall ==
  \A c \in Clients :
    /\ Cardinality(RequestsBy(c)) <= 1
    /\ par[c].pc \in {"fetch", "json"} => Cardinality(RequestsBy(c)) = 1
    /\ (Done(c) /\ par[c].ended # "start") => Cardinality(RequestsBy(c)) = 1
    /\ (Done(c) /\ par[c].ended = "start") => RequestsBy(c) = {}

C18_Witness ==
  \E c \in Clients :
    /\ Done(c)
    /\ par[c].ended = "fetch"
    /\ par[c].result.kind = "throw"
    /\ Cardinality(RequestsBy(c)) = 1

(***************************************************************************)
(* use-agekey.ts: UseAgeKeyClient.getAuthorizationUrl.  crypto is the      *)
(* random source and arrays the two arrays it fills, the first for the     *)
(* state and the second for the nonce.  The options hold JSON values; an   *)
(* option that is not given is the empty set.                              *)
(***************************************************************************)
\* s.split(sep)[0] on a string given by its pieces
SplitFirst(pieces, sep) ==
  IF \E i \in DOMAIN pieces : pieces[i] = sep
  THEN SubSeq(pieces, 1,
              (CHOOSE i \in DOMAIN pieces :
                 /\ pieces[i] = sep
                 /\ \A j \in 1..(i - 1) : pieces[j] # sep) - 1)
  ELSE pieces

The(option) == CHOOSE x \in option : TRUE

\* array?.length is a non-zero number
HasElements(object, key) ==
  /\ key \in DOMAIN object.v
  /\ object.v[key].t = "array"
  /\ Len(object.v[key].v) > 0

\* array.sort((a, b) => a - b) on an array of numbers
Ascending(array) ==
  LET n == Len(array.v)
      order == CHOOSE p \in [1..n -> 1..n] :
                 /\ \A i, j \in 1..n : i # j => p[i] # p[j]
                 /\ \A i, j \in 1..n : i < j =>
                      \/ array.v[p[i]].v < array.v[p[j]].v
                      \/ array.v[p[i]].v = array.v[p[j]].v /\ p[i] < p[j]
  IN JArr([i \in 1..n |-> array.v[order[i]]])

\* the claims object with the age thresholds sorted
UseAgeKeyClaims_sorted(options) ==
  Object(
    [age_thresholds |-> {Ascending(options.ageThresholds)},
     allowed_methods |->
       IF options.allowedMethods # {} /\ Len(The(options.allowedMethods).v) > 0
       THEN options.allowedMethods ELSE {},
     verified_after |->
       IF options.verifiedAfter # {}
       THEN {JStr(SplitFirst(toISOString(The(options.verifiedAfter)), "T"))}
       ELSE {},
     overrides |->
       IF options.overrides # {} /\ DOMAIN The(options.overrides).v # {}
       THEN options.overrides ELSE {},
     provenance |->
       IF /\ options.provenance # {}
          /\ \/ HasElements(The(options.provenance), "allowed")
             \/ HasElements(The(options.provenance), "denied")
       THEN options.provenance ELSE {}])

\* the claims object that getAuthorizationUrl serializes
UseAgeKeyClaims(options) ==
  Object(
    [age_thresholds |-> {options.ageThresholds},
     allowed_methods |->
       IF options.allowedMethods # {} /\ Len(The(options.allowedMethods).v) > 0
       THEN options.allowedMethods ELSE {},
     verified_after |->
       IF options.verifiedAfter # {}
       THEN {JStr(SplitFirst(toISOString(The(options.verifiedAfter)), "T"))}
       ELSE {},
     overrides |->
       IF options.overrides # {} /\ DOMAIN The(options.overrides).v # {}
       THEN options.overrides ELSE {},
     provenance |->
       IF /\ options.provenance # {}
          /\ \/ HasElements(The(options.provenance), "allowed")
             \/ HasElements(The(options.provenance), "denied")
       THEN options.provenance ELSE {}])

\* getAuthorizationUrl that asks for the upgrade scope but never sets can_create
getAuthorizationUrl_noCanCreate(self, crypto, arrays, options) ==
  LET state == generateState(crypto, arrays[1])
      nonce == generateNonce(crypto, arrays[2])
  IN
  IF state.kind = "throw" THEN [outcome |-> state, drawn |-> <<>>]
  ELSE IF nonce.kind = "throw" THEN [outcome |-> nonce, drawn |-> <<arrays[1]>>]
  ELSE IF options.verifiedAfter # {} /\ toISOStringThrows(The(options.verifiedAfter))
  THEN [outcome |-> Throw(RangeError, <<>>), drawn |-> arrays]
  ELSE
  [outcome |-> Return(
     [url |-> [endpoint |-> self.environment.useEndpoint,
               params |-> <<
                 <<"client_id", self.config.clientId>>,
                 <<"redirect_uri", self.config.redirectUri>>,
                 <<"response_type", RESPONSE_TYPES.idToken>>,
                 <<"scope", IF options.enableCreate THEN SCOPES.upgrade
                            ELSE SCOPES.openid>>,
                 <<"state", state.value>>,
                 <<"nonce", nonce.value>>,
                 <<"claims", JsonStringify(JObj(UseAgeKeyClaims(options)))>> >>],
      state |-> state.value,
      nonce |-> nonce.value], <<>>),
   drawn |-> arrays]

getAuthorizationUrl(self, crypto, arrays, options) ==
  LET state == generateState(crypto, arrays[1])
      nonce == generateNonce(crypto, arrays[2])
  IN
  IF state.kind = "throw" THEN [outcome |-> state, drawn |-> <<>>]
  ELSE IF nonce.kind = "throw" THEN [outcome |-> nonce, drawn |-> <<arrays[1]>>]
  ELSE IF options.verifiedAfter # {} /\ toISOStringThrows(The(options.verifiedAfter))
  THEN [outcome |-> Throw(RangeError, <<>>), drawn |-> arrays]
  ELSE
  [outcome |-> Return(
     [url |-> [endpoint |-> self.environment.useEndpoint,
               params |-> <<
                 <<"client_id", self.config.clientId>>,
                 <<"redirect_uri", self.config.redirectUri>>,
                 <<"response_type", RESPONSE_TYPES.idToken>>,
                 <<"scope", IF options.enableCreate THEN SCOPES.upgrade
                            ELSE SCOPES.openid>>,
                 <<"state", state.value>>,
                 <<"nonce", nonce.value>>,
                 <<"claims", JsonStringify(JObj(UseAgeKeyClaims(options)))>> >>
                 \o IF options.enableCreate
                    THEN << <<"can_create", "true">> >> ELSE <<>>],
      state |-> state.value,
      nonce |-> nonce.value], <<>>),
   drawn |-> arrays]

\* url.searchParams.get(name) on an authorization URL
SearchParam(url, name) ==
  LET i == CHOOSE i \in DOMAIN url.params :
             /\ url.params[i][1] = name
             /\ \A j \in 1..(i - 1) : url.params[j][1] # name
  IN url.params[i][2]

(***************************************************************************)
(* Specification of two logical Use flows on one client.  flows[f] is the  *)
(* session of flow f: the options and the result of its                    *)
(* getAuthorizationUrl, the pair the application stored, the callback URL  *)
(* the authorization server redirected to, and the results of handling     *)
(* that callback against the stored pair of each flow.                     *)
(***************************************************************************)
Flows == {"A", "B"}

FlowClient == "c1"

UseOptions ==
  {[ageThresholds |-> JArr(<<JNum(18)>>),
    allowedMethods |-> {},
    verifiedAfter |-> {},
    overrides |-> {},
    provenance |-> {},
    enableCreate |-> e] : e \in BOOLEAN}

\* the exp claims the authorization server issues, in seconds
Expiries == {0, 1}

InitFlows ==
  /\ client = [c \in Clients |-> NewAgeKey(Configs[c])]
  /\ clock = 0
  /\ callbackUrl = [parses |-> FALSE]
  /\ validation = [state |-> StateAB, nonce |-> NonceCD]
  /\ outcome = [c \in Clients |-> NotCalled]
  /\ call = NoCall
  /\ random \in {[available |-> a, drawn |-> <<>>] : a \in BOOLEAN}
  /\ network = NoNetwork
  /\ par = NoPar
  /\ flows = [f \in Flows |-> [pc |-> "new"]]

\* the application starts flow f and stores the state and the nonce
FlowGetAuthorizationUrl(f) ==
  /\ flows[f].pc = "new"
  /\ \E options \in UseOptions, a1 \in GetRandomValues :
     \E a2 \in GetRandomValues \ {a1} :
       LET step == getAuthorizationUrl(client[FlowClient], random, <<a1, a2>>,
                                       options)
       IN
       /\ random' = [random EXCEPT !.drawn =
            @ \o [i \in DOMAIN step.drawn |-> [by |-> f, array |-> step.drawn[i]]]]
       /\ flows' = [flows EXCEPT ![f] =
            IF step.outcome.kind = "throw"
            THEN [pc |-> "failed", options |-> options, result |-> step.outcome]
            ELSE [pc |-> "started", options |-> options,
                  result |-> step.outcome,
                  stored |-> [state |-> step.outcome.value.state,
                              nonce |-> step.outcome.value.nonce]]]
  /\ UNCHANGED <<client, clock, callbackUrl, validation, outcome, call>>
  /\ UNCHANGED <<network, par>>

\* the authorization server answers the request of flow f: it echoes the
\* state and binds the ID token to the nonce of the authorization URL
FlowRedirect(f) ==
  /\ flows[f].pc = "started"
  /\ \E exp \in Expiries :
       LET url == flows[f].result.value.url
           payload ==
             JObj([nonce |-> JStr(SearchParam(url, "nonce")),
                   exp |-> JNum(exp),
                   age_thresholds |-> JObj([k \in {"18"} |-> JBool(TRUE)]),
                   sub |-> JStr(<<117>>)])
       IN
       flows' = [flows EXCEPT ![f] =
         [pc |-> "returned", options |-> @.options, result |-> @.result,
          stored |-> @.stored,
          callback |->
            [parses |-> TRUE,
             searchParams |->
               [state |-> SearchParam(url, "state"),
                id_token |-> <<Header, Segment("std", JsonText(payload)),
                               Signature>>]],
          results |-> <<>>]]
  /\ UNCHANGED <<client, clock, callbackUrl, validation, outcome, call>>
  /\ UNCHANGED <<random, network, par>>

\* the application handles the callback of flow f against the pair it
\* stored for flow g, once
FlowHandleCallback(f, g) ==
  /\ flows[f].pc = "returned"
  /\ flows[g].pc \in {"started", "returned"}
  /\ g \notin DOMAIN flows[f].results
  /\ flows' = [flows EXCEPT ![f].results =
       (g :> handleCallback(client[FlowClient], flows[f].callback,
                            flows[g].stored)) @@ @]
  /\ UNCHANGED <<client, clock, callbackUrl, validation, outcome, call>>
  /\ UNCHANGED <<random, network, par>>

NextFlows ==
  \/ \E f \in Flows : FlowGetAuthorizationUrl(f)
  \/ \E f \in Flows : FlowRedirect(f)
  \/ \E f, g \in Flows : FlowHandleCallback(f, g)

SpecFlows == InitFlows /\ [][NextFlows]_vars

\* flow f has a result of getAuthorizationUrl
Started(f) == flows[f].pc \in {"started", "returned"}

\* the callback of flow f was handled against the pair stored for flow g
Handled(f, g) == flows[f].pc = "returned" /\ g \in DOMAIN flows[f].results

\* the exp claim of the token in the callback of flow f
TokenExp(f) == flows[f].callback.searchParams["id_token"][2].text.value.v["exp"].v

\* C19: however the getAuthorizationUrl and handleCallback calls of two
\* flows on one client interleave, a callback echoing the state of flow f
\* with a token bound to the nonce of f is, when validated against the
\* pair stored for f, accepted if the token is unexpired and refused as
\* expired otherwise, as it would be alone; validated against the pair
\* stored for the other flow it is rejected with a state mismatch.
C19_FlowsDoNotInterfere ==
  \A f, g \in Flows :
    Handled(f, g) =>
      LET result == flows[f].results[g] IN
      /\ (f = g /\ TokenExp(f) > clock \div MsPerSecond) =>
           /\ result.kind = "return"
           /\ result.value.ageThresholds = JObj([k \in {"18"} |-> JBool(TRUE)])
      /\ (f = g /\ TokenExp(f) <= clock \div MsPerSecond) =>
           /\ result.kind = "throw"
           /\ result.error.name = "InvalidTokenError"
      /\ f # g =>
           /\ result.kind = "throw"
           /\ result.error.name = "StateMismatchError"

C19_Witness ==
  \E f, g \in Flows :
    /\ f # g
    /\ Handled(f, f) /\ Handled(f, g) /\ Handled(g, g) /\ Handled(g, f)
    /\ flows[f].results[f].kind = "return"
    /\ flows[g].results[g].kind = "return"
    /\ flows[f].results[g].kind = "throw"
    /\ flows[g].results[f].kind = "throw"

\* C20: every call of Use-flow getAuthorizationUrl that returns draws two
\* random arrays; its state and nonce are non-empty, they are the values of
\* the state and nonce parameters of the URL, and they differ from the
\* state and the nonce of every other call, also when the options are the
\* same.
C20_FreshStateAndNonce ==
  \A f \in Flows :
    Started(f) =>
      LET mine == flows[f].result.value IN
      /\ Cardinality({i \in DOMAIN random.drawn : random.drawn[i].by = f}) = 2
      /\ mine.state # <<>> /\ mine.nonce # <<>>
      /\ Len(mine.state) = 2 * tokenLength /\ Len(mine.nonce) = 2 * tokenLength
      /\ SearchParam(mine.url, "state") = mine.state
      /\ SearchParam(mine.url, "nonce") = mine.nonce
      /\ \A g \in Flows \ {f} :
           Started(g) =>
             LET other == flows[g].result.value IN
             {mine.state, mine.nonce} \cap {other.state, other.nonce} = {}

C20_Witness ==
  \E f, g \in Flows :
    /\ f # g
    /\ Started(f) /\ Started(g)
    /\ flows[f].options = flows[g].options
    /\ flows[f].result.value.state # flows[g].result.value.state
    /\ flows[f].result.value.nonce # flows[g].result.value.nonce

(***************************************************************************)
(* Specification of direct calls of the two getAuthorizationUrl methods.   *)
(* The application makes one call on one of its clients; call holds the    *)
(* method, the client, the arguments and the outcome.                      *)
(***************************************************************************)
VerifiedAfter == [iso |-> <<"2024-01-15", "T", "12:00:00.000Z">>]

\* an entry of the overrides map
MethodOverrides ==
  {JObj(<<>>),
   JObj([min_age |-> JNum(21)]),
   JObj([age_thresholds |-> JArr(<<JNum(21)>>)]),
   JObj([verified_after |-> JStr(<<"2024-01-01">>)]),
   JObj([min_age |-> Undefined])}

OverridesMaps ==
  {JObj(<<>>),
   JObj([id_doc_scan |-> JObj([min_age |-> JNum(18)])]),
   JObj([facial_age_estimation |-> Undefined])}
  \cup {JObj([facial_age_estimation |-> o]) : o \in MethodOverrides}

ProvenanceFilters ==
  {JObj(<<>>),
   JObj([allowed |-> JArr(<<>>)]),
   JObj([allowed |-> JArr(<<>>), denied |-> JArr(<<>>)]),
   JObj([allowed |-> JArr(<<JStr(<<"/veratad/*">>)>>)]),
   JObj([denied |-> JArr(<<JStr(<<"/connect_id/*">>)>>)]),
   JObj([allowed |-> JArr(<<JStr(<<"/veratad/*">>)>>), denied |-> JArr(<<>>)])}

AgeThresholdLists ==
  {JArr(<<JNum(13), JNum(18), JNum(21)>>),
   JArr(<<JNum(21), JNum(13), JNum(18)>>),
   JArr(<<JNum(18), JNum(18)>>),
   JArr(<<>>),
   JArr(<<JNum(13), JNum(16), JNum(18), JNum(21), JNum(25), JNum(65)>>)}

\* options.customState
CustomStates == {JObj([returnTo |-> JStr(<<"/checkout">>)])}

UseUrlOptions ==
  {[ageThresholds |-> a, allowedMethods |-> m, verifiedAfter |-> v,
    overrides |-> o, provenance |-> p, enableCreate |-> e,
    customState |-> s] :
     a \in AgeThresholdLists,
     s \in Some(CustomStates),
     m \in Some({JArr(<<>>), JArr(<<JStr(<<"id_doc_scan">>)>>)}),
     v \in Some({VerifiedAfter, InvalidDate}),
     o \in Some(OverridesMaps),
     p \in Some(ProvenanceFilters),
     e \in BOOLEAN}

RequestUris ==
  {RequestUri, <<"urn:ietf:params:oauth:request_uri:", "a b&c=d">>, <<>>}

\* the arrays the random source hands out to these calls
UrlRandomValues == {a \in GetRandomValues : a[2] = 1}

InitUrl ==
  /\ client = [c \in Clients |-> NewAgeKey(Configs[c])]
  /\ clock = 0
  /\ callbackUrl = [parses |-> FALSE]
  /\ validation = [state |-> StateAB, nonce |-> NonceCD]
  /\ outcome = [c \in Clients |-> NotCalled]
  /\ call = NoCall
  /\ random \in {[available |-> a, drawn |-> <<>>] : a \in BOOLEAN}
  /\ network = NoNetwork
  /\ par = NoPar
  /\ flows = NoFlows

\* useAgeKey.getAuthorizationUrl(options) on client c
CallUseGetAuthorizationUrl(c) ==
  /\ call = NoCall
  /\ \E options \in UseUrlOptions, a1 \in UrlRandomValues :
     \E a2 \in UrlRandomValues \ {a1} :
     \E step \in {getAuthorizationUrl(client[c], random, <<a1, a2>>, options)} :
       /\ random' = [random EXCEPT !.drawn =
            @ \o [i \in DOMAIN step.drawn |-> [by |-> c, array |-> step.drawn[i]]]]
       /\ call' = [fn |-> "useAgeKey.getAuthorizationUrl", client |-> c,
                   options |-> options, result |-> step.outcome]
  /\ UNCHANGED <<client, clock, callbackUrl, validation, outcome>>
  /\ UNCHANGED <<network, par, flows>>

\* createAgeKey.getAuthorizationUrl(requestUri, options) on client c
CallCreateGetAuthorizationUrl(c) ==
  /\ call = NoCall
  /\ \E requestUri \in RequestUris, enableUpgrade \in BOOLEAN :
       call' = [fn |-> "createAgeKey.getAuthorizationUrl", client |-> c,
                requestUri |-> requestUri,
                options |-> [enableUpgrade |-> enableUpgrade],
                result |-> Return(
                  [url |-> Create_getAuthorizationUrl(
                             client[c], requestUri,
                             [enableUpgrade |-> enableUpgrade])], <<>>)]
  /\ UNCHANGED <<client, clock, callbackUrl, validation, outcome>>
  /\ UNCHANGED <<random, network, par, flows>>

NextUrl ==
  \/ \E c \in Clients : CallUseGetAuthorizationUrl(c)
  \/ \E c \in Clients : CallCreateGetAuthorizationUrl(c)

SpecUrl == InitUrl /\ [][NextUrl]_vars

\* the call made was useAgeKey.getAuthorizationUrl
UseUrlCalled == call.fn = "useAgeKey.getAuthorizationUrl"

\* the caller's option is given
Given(option) == option # {}

\* the value of member key of a JSON object, if it has one that is defined
Field(object, key) ==
  IF key \in DOMAIN object.v /\ object.v[key] # Undefined
  THEN {object.v[key]} ELSE {}

\* the claims parameter of the URL a call returned, parsed
ClaimsOf(result) == JsonParse(SearchParam(result.value.url, "claims"))

\* the caller's overrides have an entry for facial_age_estimation that
\* sets neither min_age nor age_thresholds
FacialOverrideWithoutAge(options) ==
  /\ Given(options.overrides)
  /\ \E entry \in Field(The(options.overrides), "facial_age_estimation") :
       /\ entry.t = "object"
       /\ Field(entry, "min_age") = {}
       /\ Field(entry, "age_thresholds") = {}

\* the call had what it needs to get as far as a URL: a random source and,
\* if a date was given, a valid one
UseUrlInputsUsable ==
  /\ random.available
  /\ call.options.verifiedAfter # {InvalidDate}

\* C21: a call of Use-flow getAuthorizationUrl whose overrides have a
\* facial_age_estimation entry with neither min_age nor age_thresholds
\* raises InvalidRequestError, returns no URL and sends no request.
C21_FacialOverrideWithoutAgeRejected ==
  (UseUrlCalled /\ UseUrlInputsUsable /\ FacialOverrideWithoutAge(call.options)) =>
    /\ call.result.kind = "throw"
    /\ call.result.error.name = "InvalidRequestError"
    /\ network.requests = <<>>

\* the call returned a URL
UseUrlReturned == UseUrlCalled /\ call.result.kind = "return"

\* C22: the age_thresholds of the claims parameter of the URL that Use-flow
\* getAuthorizationUrl returns is the caller's ageThresholds: the same
\* numbers in the same order, duplicates included.
C22_AgeThresholdsInCallerOrder ==
  UseUrlReturned =>
    LET claims == ClaimsOf(call.result)
        given == call.options.ageThresholds
    IN
    /\ claims.t = "object"
    /\ "age_thresholds" \in DOMAIN claims.v
    /\ claims.v["age_thresholds"].t = "array"
    /\ Len(claims.v["age_thresholds"].v) = Len(given.v)
    /\ \A i \in DOMAIN given.v : claims.v["age_thresholds"].v[i] = given.v[i]

C22_Witness ==
  /\ UseUrlReturned
  /\ call.options.ageThresholds = JArr(<<JNum(21), JNum(13), JNum(18)>>)
  /\ ClaimsOf(call.result).v["age_thresholds"].v = <<JNum(21), JNum(13), JNum(18)>>

\* what it is for the caller to have populated an optional option
AllowedMethodsPopulated(options) ==
  Given(options.allowedMethods) /\ Len(The(options.allowedMethods).v) > 0

VerifiedAfterPopulated(options) == Given(options.verifiedAfter)

\* the overrides map has at least one key
OverridesPopulated(options) ==
  Given(options.overrides) /\ DOMAIN The(options.overrides).v # {}

ProvenancePopulated(options) ==
  /\ Given(options.provenance)
  /\ \E k \in {"allowed", "denied"} :
       \E list \in Field(The(options.provenance), k) : Len(list.v) > 0

\* null, the empty string, the empty array or the object without members
EmptyValue(value) ==
  \/ value.t \in {"null", "undefined"}
  \/ value.t \in {"string", "array"} /\ Len(value.v) = 0
  \/ value.t = "object" /\ DOMAIN value.v = {}

\* the optional fields of the claims are present exactly for the options
\* the caller populated
OptionalFieldsAsPopulated(claims, options) ==
  /\ DOMAIN claims.v \subseteq
       {"age_thresholds", "allowed_methods", "verified_after", "overrides",
        "provenance"}
  /\ "allowed_methods" \in DOMAIN claims.v <=> AllowedMethodsPopulated(options)
  /\ "verified_after" \in DOMAIN claims.v <=> VerifiedAfterPopulated(options)
  /\ "overrides" \in DOMAIN claims.v <=> OverridesPopulated(options)
  /\ "provenance" \in DOMAIN claims.v <=> ProvenancePopulated(options)

\* C23: the claims of the URL that Use-flow getAuthorizationUrl returns
\* have an optional field exactly when the caller populated the option (a
\* non-empty allowedMethods list, a verifiedAfter date, a non-empty
\* overrides map, a provenance filter with a non-empty allowed or denied
\* list), and no optional field that is present is null or empty.
C23_OptionalFieldExactlyWhenPopulated ==
  UseUrlReturned =>
    LET claims == ClaimsOf(call.result) IN
    /\ OptionalFieldsAsPopulated(claims, call.options)
    /\ \A k \in DOMAIN claims.v \ {"age_thresholds"} : ~EmptyValue(claims.v[k])

\* the URL has a parameter of that name
UrlHasParam(url, name) == \E i \in DOMAIN url.params : url.params[i][1] = name

\* C24: in the URL that Use-flow getAuthorizationUrl returns, the scope is
\* "openid agekey.upgrade" exactly when the parameter can_create=true is
\* present, and both exactly when enableCreate was requested; otherwise
\* the scope is "openid" and there is no can_create parameter.  The
\* response type is always id_token.
C24_UpgradeScopeExactlyWithCanCreate ==
  UseUrlReturned =>
    LET url == call.result.value.url
        upgrade == SearchParam(url, "scope") = "openid agekey.upgrade"
        canCreate == UrlHasParam(url, "can_create")
    IN
    /\ upgrade <=> canCreate
    /\ canCreate <=> call.options.enableCreate
    /\ canCreate => SearchParam(url, "can_create") = "true"
    /\ ~upgrade => SearchParam(url, "scope") = "openid"
    /\ SearchParam(url, "response_type") = "id_token"
    /\ url.endpoint = client[call.client].environment.useEndpoint

C24_Witness ==
  /\ UseUrlReturned
  /\ call.options.enableCreate
  /\ SearchParam(call.result.value.url, "scope") = "openid agekey.upgrade"
  /\ SearchParam(call.result.value.url, "can_create") = "true"

\* the call made was createAgeKey.getAuthorizationUrl
CreateUrlCalled == call.fn = "createAgeKey.getAuthorizationUrl"

\* the names of the parameters of the URL, in their order
ParamNames(url) == [i \in DOMAIN url.params |-> url.params[i][1]]

\* C25: the URL that Create-flow getAuthorizationUrl returns is on the
\* create endpoint of the client and carries the client id, the redirect
\* URI, the response type none and the request URI it was given, unchanged;
\* its scope is "openid agekey.upgrade" exactly when can_upgrade=true is
\* present, which is exactly when enableUpgrade was requested, and "openid"
\* otherwise; it carries no other parameter.
C25_CreateUrlCarriesRequestUri ==
  CreateUrlCalled =>
    LET url == call.result.value.url
        self == client[call.client]
        upgrade == SearchParam(url, "scope") = "openid agekey.upgrade"
        canUpgrade == UrlHasParam(url, "can_upgrade")
    IN
    /\ call.result.kind = "return"
    /\ url.endpoint = self.environment.createEndpoint
    /\ SearchParam(url, "client_id") = self.config.clientId
    /\ SearchParam(url, "redirect_uri") = self.config.redirectUri
    /\ SearchParam(url, "response_type") = "none"
    /\ SearchParam(url, "request_uri") = call.requestUri
    /\ upgrade <=> canUpgrade
    /\ canUpgrade <=> call.options.enableUpgrade
    /\ canUpgrade => SearchParam(url, "can_upgrade") = "true"
    /\ ~upgrade => SearchParam(url, "scope") = "openid"
    /\ ParamNames(url) =
         <<"client_id", "redirect_uri", "response_type", "scope", "request_uri">>
         \o IF call.options.enableUpgrade THEN <<"can_upgrade">> ELSE <<>>

C25_Witness ==
  /\ CreateUrlCalled
  /\ call.options.enableUpgrade
  /\ call.requestUri = <<"urn:ietf:params:oauth:request_uri:", "a b&c=d">>
  /\ SearchParam(call.result.value.url, "request_uri") = call.requestUri
  /\ SearchParam(call.result.value.url, "can_upgrade") = "true"

(***************************************************************************)
(* index.ts (errors.ts 191-317) and utils/environment.ts: the constructor  *)
(* of AgeKey.  The config is taken as the caller writes it: each member is *)
(* given or not, and a member that is given may be the empty string.  The  *)
(* outcome lists the statements the constructor went through.              *)
(***************************************************************************)
CREDENTIAL_PREFIXES ==
  [testClientId |-> "ak_test_", liveClientId |-> "ak_live_",
   testSecret |-> "sk_test_", liveSecret |-> "sk_live_"]

EmptyCredential == [prefix |-> "", rest |-> ""]

isTestSecret(secret) == secret.prefix = CREDENTIAL_PREFIXES.testSecret

hasSecretPrefix(secret) ==
  \/ secret.prefix = CREDENTIAL_PREFIXES.testSecret
  \/ secret.prefix = CREDENTIAL_PREFIXES.liveSecret

\* new Error(`Environment mismatch: ...`)
EnvironmentMismatch(clientIsTest, secretIsTest) ==
  [name |-> "Error",
   message |-> <<"Environment mismatch: clientId is ",
                 IF clientIsTest THEN "test" ELSE "live",
                 " but clientSecret is ",
                 IF secretIsTest THEN "test" ELSE "live",
                 ". ", "Both must be from the same environment.">>]

\* validateCredentialEnvironments that also skips a clientId without a prefix
validateCredentialEnvironments_bothTagged(clientId, clientSecret) ==
  IF ~hasSecretPrefix(clientSecret) THEN Return(Undefined, <<>>)
  ELSE IF clientId.prefix \notin {CREDENTIAL_PREFIXES.testClientId,
                                  CREDENTIAL_PREFIXES.liveClientId}
  THEN Return(Undefined, <<>>)
  ELSE
  LET clientIsTest == isTestCredential(clientId)
      secretIsTest == isTestSecret(clientSecret)
  IN
  IF clientIsTest # secretIsTest
  THEN Throw(EnvironmentMismatch(clientIsTest, secretIsTest), <<>>)
  ELSE Return(Undefined, <<>>)

validateCredentialEnvironments(clientId, clientSecret) ==
  IF ~hasSecretPrefix(clientSecret) THEN Return(Undefined, <<>>)
  ELSE
  LET clientIsTest == isTestCredential(clientId)
      secretIsTest == isTestSecret(clientSecret)
  IN
  IF clientIsTest # secretIsTest
  THEN Throw(EnvironmentMismatch(clientIsTest, secretIsTest), <<>>)
  ELSE Return(Undefined, <<>>)

\* !member for a member that holds a credential, and for one that holds a string
NoCredential(member) == member = {} \/ member = {EmptyCredential}

NoString(member) == member = {} \/ member = {""}

\* the config as the instance and its sub-clients read it
StoredConfig(config) ==
  [clientId |-> The(config.clientId),
   redirectUri |-> The(config.redirectUri),
   apiBaseUrl |-> IF NoString(config.apiBaseUrl) THEN ""
                  ELSE The(config.apiBaseUrl),
   clientSecret |-> config.clientSecret]

\* the constructor that resolves the environment before it validates
AgeKey_resolvesFirst(config) ==
  IF NoCredential(config.clientId)
  THEN Throw(InvalidRequestError(<<"clientId is required">>),
             <<"environment", "clientId">>)
  ELSE IF NoString(config.redirectUri)
  THEN Throw(InvalidRequestError(<<"redirectUri is required">>),
             <<"environment", "clientId", "redirectUri">>)
  ELSE Return(NewAgeKey(StoredConfig(config)),
              <<"environment", "clientId", "redirectUri", "useAgeKey",
                "createAgeKey">>)

\* new AgeKey(config)
AgeKey(config) ==
  IF NoCredential(config.clientId)
  THEN Throw(InvalidRequestError(<<"clientId is required">>), <<"clientId">>)
  ELSE IF NoString(config.redirectUri)
  THEN Throw(InvalidRequestError(<<"redirectUri is required">>),
             <<"clientId", "redirectUri">>)
  ELSE
  LET validated ==
        IF NoCredential(config.clientSecret) THEN Return(Undefined, <<>>)
        ELSE validateCredentialEnvironments(The(config.clientId),
                                            The(config.clientSecret))
  IN
  IF validated.kind = "throw"
  THEN Throw(validated.error, <<"clientId", "redirectUri", "clientSecret">>)
  ELSE Return(NewAgeKey(StoredConfig(config)),
              <<"clientId", "redirectUri", "clientSecret", "environment",
                "useAgeKey", "createAgeKey">>)

(***************************************************************************)
(* Specification of the construction of the clients: the application       *)
(* constructs each client once, from any of the configs below.             *)
(***************************************************************************)
ClientIds ==
  {EmptyCredential,
   [prefix |-> "ak_test_", rest |-> "123456"],
   [prefix |-> "ak_live_", rest |-> "123456"],
   [prefix |-> "", rest |-> "v2-ec924bb1"],
   [prefix |-> "", rest |-> "AK_TEST_123456"]}

ClientSecrets ==
  {EmptyCredential,
   [prefix |-> "sk_test_", rest |-> "789012"],
   [prefix |-> "sk_live_", rest |-> "789012"],
   [prefix |-> "", rest |-> "789012"]}

RedirectUris == {"", "https://example.com/callback"}

ApiBaseUrls == {"", "https://custom.agekey.local"}

ConstructorConfigs ==
  {[clientId |-> i, clientSecret |-> s, redirectUri |-> r, apiBaseUrl |-> b] :
     i \in Some(ClientIds), s \in Some(ClientSecrets),
     r \in Some(RedirectUris), b \in Some(ApiBaseUrls)}

NotConstructed == [constructed |-> FALSE]

InitConstruct ==
  /\ client = [c \in Clients |-> NotConstructed]
  /\ clock = 0
  /\ callbackUrl = [parses |-> FALSE]
  /\ validation = [state |-> StateAB, nonce |-> NonceCD]
  /\ outcome = [c \in Clients |-> NotCalled]
  /\ call = NoCall
  /\ random = NoRandom
  /\ network = NoNetwork
  /\ par = NoPar
  /\ flows = NoFlows

\* client c = new AgeKey(config)
Construct(c) ==
  /\ ~outcome[c].called
  /\ \E config \in ConstructorConfigs :
     \E result \in {AgeKey(config)} :
       /\ outcome' = [outcome EXCEPT ![c] =
            [called |-> TRUE, config |-> config, result |-> result]]
       /\ client' = [client EXCEPT ![c] =
            IF result.kind = "return" THEN result.value ELSE @]
  /\ UNCHANGED <<clock, callbackUrl, validation, call>>
  /\ UNCHANGED <<random, network, par, flows>>

NextConstruct == \E c \in Clients : Construct(c)

SpecConstruct == InitConstruct /\ [][NextConstruct]_vars

\* the constructor was called for client c
Constructed(c) == outcome[c].called

\* the constructor resolved the environment, or created a sub-client
Resolved(c) ==
  \/ \E i \in DOMAIN outcome[c].result.checks :
       outcome[c].result.checks[i] \in {"environment", "useAgeKey", "createAgeKey"}
  \/ client[c] # NotConstructed

\* C26: the constructor called with a clientId that is missing or empty,
\* or with a redirectUri that is missing or empty, throws
\* InvalidRequestError; it has not resolved the environment and no
\* sub-client exists.
C26_MissingIdOrRedirectRejected ==
  \A c \in Clients :
    Constructed(c) =>
      LET config == outcome[c].config IN
      (\/ config.clientId \in {{}, {EmptyCredential}}
       \/ config.redirectUri \in {{}, {""}}) =>
        /\ outcome[c].result.kind = "throw"
        /\ outcome[c].result.error.name = "InvalidRequestError"
        /\ outcome[c].result.error.code = "invalid_request"
        /\ ~Resolved(c)

C26_Witness ==
  \E c, d \in Clients :
    /\ Constructed(c) /\ Constructed(d)
    /\ outcome[c].config.clientId = {}
    /\ outcome[c].result.kind = "throw"
    /\ outcome[d].config.clientId = {[prefix |-> "ak_test_", rest |-> "123456"]}
    /\ outcome[d].config.redirectUri = {""}
    /\ outcome[d].result.kind = "throw"
    /\ outcome[d].result.error.message = <<"redirectUri is required">>

\* the error is one of the SDK's typed failures: it carries a kind tag
AgeKeyFailure(error) == "code" \in DOMAIN error

\* the clientId and the clientSecret carry environment tags that disagree
TagsDisagree(config) ==
  \E id \in config.clientId, secret \in config.clientSecret :
    \/ id.prefix = "ak_test_" /\ secret.prefix = "sk_live_"
    \/ id.prefix = "ak_live_" /\ secret.prefix = "sk_test_"

\* C27: the constructor called with a clientId and a clientSecret whose
\* environment tags disagree throws a typed configuration failure (an
\* AgeKey failure with a kind tag); it has not resolved the environment
\* and no sub-client exists.
C27_TagMismatchIsConfigurationError ==
  \A c \in Clients :
    (Constructed(c) /\ TagsDisagree(outcome[c].config)) =>
      /\ outcome[c].result.kind = "throw"
      /\ AgeKeyFailure(outcome[c].result.error)
      /\ ~Resolved(c)

\* the constructor returned an instance for client c
Accepted(c) == Constructed(c) /\ outcome[c].result.kind = "return"

\* the strings that hold a default host
DefaultUrls ==
  UNION {{AGEKEY_ENDPOINTS[e].base, AGEKEY_ENDPOINTS[e].use,
          AGEKEY_ENDPOINTS[e].create, AGEKEY_ENDPOINTS[e].par} :
           e \in {"test", "live"}}

\* C28: the environment of a constructed client is the test one exactly
\* when the clientId starts with ak_test_ (ak_live_ ids and ids without a
\* prefix are live).  With a base-URL override configured, baseUrl is the
\* override and the use, create and PAR endpoints are the override followed
\* by /v1/oidc/use, /v1/oidc/create and /v1/oidc/create/par, none of them
\* a default URL; without one they are the default URLs of the environment.
C28_EnvironmentFromClientIdAndOverride ==
  \A c \in Clients :
    Accepted(c) =>
      LET config == outcome[c].config
          env == client[c].environment
          id == The(config.clientId)
          defaults == IF env.isTest THEN AGEKEY_ENDPOINTS.test
                      ELSE AGEKEY_ENDPOINTS.live
      IN
      /\ env.isTest <=> id.prefix = "ak_test_"
      /\ id.prefix \in {"ak_live_", ""} => ~env.isTest
      /\ \A override \in config.apiBaseUrl \ {""} :
           /\ env.baseUrl = <<override>>
           /\ env.useEndpoint = <<override, "/v1/oidc/use">>
           /\ env.createEndpoint = <<override, "/v1/oidc/create">>
           /\ env.parEndpoint = <<override, "/v1/oidc/create/par">>
           /\ {env.baseUrl, env.useEndpoint, env.createEndpoint, env.parEndpoint}
                \cap DefaultUrls = {}
      /\ config.apiBaseUrl \subseteq {""} =>
           /\ env.baseUrl = defaults.base
           /\ env.useEndpoint = defaults.use
           /\ env.createEndpoint = defaults.create
           /\ env.parEndpoint = defaults.par

C28_Witness ==
  \E c, d \in Clients :
    /\ Accepted(c) /\ Accepted(d)
    /\ The(outcome[c].config.clientId).prefix = "ak_test_"
    /\ outcome[c].config.apiBaseUrl = {"https://custom.agekey.local"}
    /\ client[c].environment.isTest
    /\ client[c].environment.parEndpoint =
         <<"https://custom.agekey.local", "/v1/oidc/create/par">>
    /\ The(outcome[d].config.clientId) = [prefix |-> "", rest |-> "v2-ec924bb1"]
    /\ outcome[d].config.apiBaseUrl = {}
    /\ ~client[d].environment.isTest
    /\ client[d].environment.useEndpoint = AGEKEY_ENDPOINTS.live.use

\* the outcomes of the public operations that have ended: the constructor
\* or Use-flow handleCallback (outcome), the getAuthorizationUrl methods
\* (call), pushAuthorizationRequest and initiate (par)
EndedOperations ==
  {outcome[c].result : c \in {d \in Clients : outcome[d].called}}
  \cup (IF "result" \in DOMAIN call THEN {call.result} ELSE {})
  \cup {par[c].result : c \in {d \in Clients : par[d].pc = "done"}}

\* C29: every failure that a public operation of the SDK raises is a typed
\* AgeKey failure: it carries a kind tag and a message that is not empty.
C29_EveryFailureIsTyped ==
  \A result \in EndedOperations :
    result.kind = "throw" =>
      /\ AgeKeyFailure(result.error)
      /\ result.error.message # <<>>

(***************************************************************************)
(* constants.ts 85-118: decodeJwtPayload with its try block and its catch. *)
(* platform is the decoder the run time offers: "atob" (a browser, or      *)
(* Node.js from 16 on), "Buffer" (an older Node.js) or "none".  The text   *)
(* of a segment over the "invalid" alphabet is what a decoder that skips   *)
(* the characters it does not know gets from the rest.                     *)
(***************************************************************************)
Platforms == {"atob", "Buffer", "none"}

\* what atob throws for a string that is not base64
InvalidCharacterError ==
  [name |-> "InvalidCharacterError",
   message |-> <<"The string to be decoded is not correctly encoded.">>]

\* Buffer.from(base64, "base64").toString("utf-8"): it never throws
BufferFrom(base64) == base64.text

\* the try block of decodeJwtPayload
decodeJwtPayload_try(platform, token) ==
  LET parts == token IN
  IF Len(parts) # 3 THEN Return(JNull, <<>>)
  ELSE
  LET payload == parts[2]
      base64 == ToBase64(payload)
  IN
  IF payload = EmptySegment THEN Return(JNull, <<>>)
  ELSE IF platform = "atob" /\ AtobThrows(base64)
  THEN Throw(InvalidCharacterError, <<>>)
  ELSE IF platform = "none" THEN Return(JNull, <<>>)
  ELSE
  LET jsonPayload == IF platform = "atob" THEN Atob(base64)
                     ELSE BufferFrom(base64)
  IN
  IF JsonParseThrows(jsonPayload) THEN Throw(SyntaxError, <<>>)
  ELSE Return(JsonParse(jsonPayload), <<>>)

\* decodeJwtPayload without its catch
DecodeJwtPayload_noCatch(platform, token) == decodeJwtPayload_try(platform, token)

\* decodeJwtPayload(token) on a platform: try { ... } catch { return null }
DecodeJwtPayload(platform, token) ==
  LET tried == decodeJwtPayload_try(platform, token) IN
  IF tried.kind = "throw" THEN Return(JNull, <<>>) ELSE tried

(***************************************************************************)
(* Specification of direct calls of decodeJwtPayload                       *)
(***************************************************************************)
InitDecode ==
  /\ client = [c \in Clients |-> NewAgeKey(Configs[c])]
  /\ clock = 0
  /\ callbackUrl = [parses |-> FALSE]
  /\ validation = [state |-> StateAB, nonce |-> NonceCD]
  /\ outcome = [c \in Clients |-> NotCalled]
  /\ random = NoRandom
  /\ network = NoNetwork
  /\ par = NoPar
  /\ flows = NoFlows
  /\ \E platform \in Platforms, token \in Tokens :
       call = [fn |-> "decodeJwtPayload", platform |-> platform,
               token |-> token, done |-> FALSE]

CallDecodeJwtPayload ==
  /\ call.fn = "decodeJwtPayload"
  /\ ~call.done
  /\ call' = [fn |-> "decodeJwtPayload", platform |-> call.platform,
              token |-> call.token, done |-> TRUE,
              result |-> DecodeJwtPayload(call.platform, call.token)]
  /\ UNCHANGED <<client, clock, callbackUrl, validation, outcome>>
  /\ UNCHANGED <<random, network, par, flows>>

NextDecode == CallDecodeJwtPayload

SpecDecode == InitDecode /\ [][NextDecode]_vars

\* the call of decodeJwtPayload has ended
Decoded == call.fn = "decodeJwtPayload" /\ call.done

\* the token does not consist of exactly three segments
NotThreeSegments(token) == Len(token) # 3

\* the middle segment of a token of three segments is empty
MiddleEmpty(token) == token[2] = EmptySegment

\* the decoder of the platform rejects the middle segment
DecodingFails(platform, token) ==
  platform = "atob" /\ token[2].chars \notin {"std", "url"}

\* what the middle segment decodes to is not JSON
ParsingFails(token) == token[2].text.syntax # "json"

\* C30: decodeJwtPayload never raises.  It returns null when the token
\* does not have exactly three segments, when the middle segment is empty,
\* when the platform has no decoder, when the decoder rejects the middle
\* segment or when what it decodes to is not JSON; in every other case it
\* returns the value the middle segment encodes.
C30_DecodeNeverRaises ==
  Decoded =>
    LET token == call.token
        platform == call.platform
        noPayload ==
          \/ NotThreeSegments(token)
          \/ MiddleEmpty(token)
          \/ platform = "none"
          \/ DecodingFails(platform, token)
          \/ ParsingFails(token)
    IN
    /\ call.result.kind = "return"
    /\ noPayload => call.result.value = JNull
    /\ ~noPayload => call.result.value = token[2].text.value
    /\ platform = "atob" => call.result.value = decodeJwtPayload(token)

C30_Witness ==
  /\ Decoded
  /\ call.platform = "atob"
  /\ Len(call.token) = 3
  /\ call.token[2].chars = "invalid"
  /\ call.result.kind = "return"
  /\ call.result.value = JNull

(***************************************************************************)
(* Vocabulary of the properties of what a PAR request carries              *)
(***************************************************************************)
\* the requests that have been handed to the transport
Sent == {network.requests[i].request : i \in DOMAIN network.requests}

\* the values of the form fields of the name in the body of the request
FormValues(request, name) ==
  {request.body[i][2] : i \in {j \in DOMAIN request.body :
                                 request.body[j][1] = name}}

\* what the authorization_details field of the request parses to
DetailsOf(request) ==
  {JsonParse(text) : text \in FormValues(request, "authorization_details")}

\* the value is an array of exactly one object of the type age_verification
OneAgeVerification(details) ==
  /\ details.t = "array"
  /\ Len(details.v) = 1
  /\ details.v[1].t = "object"
  /\ Field(details.v[1], "type") = {JStr(<<"age_verification">>)}

\* the element of the array has a provenance value
HasProvenance(details) ==
  Field(details.v[1], "provenance") \ {JNull} # {}

\* C31: every PAR request that pushAuthorizationRequest hands to the
\* transport carries one authorization_details field, an array of exactly
\* one element of the type age_verification, and that element has a
\* provenance value: no request whose authorization detail lacks provenance
\* is sent.
C31_EveryDetailHasProvenance ==
  \A request \in Sent :
    /\ Cardinality(DetailsOf(request)) = 1
    /\ \A details \in DetailsOf(request) :
         /\ OneAgeVerification(details)
         /\ HasProvenance(details)

(***************************************************************************)
(* Vocabulary of the properties of customState                             *)
(***************************************************************************)
\* the URL that the call made would have returned from the same random
\* arrays had the caller left customState out
UrlWithoutCustomState ==
  getAuthorizationUrl(
    client[call.client], random,
    <<random.drawn[1].array, random.drawn[2].array>>,
    [call.options EXCEPT !.customState = {}]).outcome.value.url

\* C32: when the caller passes customState to Use-flow getAuthorizationUrl,
\* the URL returned carries it: the URL is not the one the same call returns
\* without customState.
C32_CustomStateInAuthorizationUrl ==
  (UseUrlReturned /\ Given(call.options.customState)) =>
    call.result.value.url # UrlWithoutCustomState

(***************************************************************************)
(* Vocabulary of the properties of the environment tags                    *)
(***************************************************************************)
\* the constructor refused the configuration of c for an environment mismatch
RejectedForMismatch(c) ==
  /\ outcome[c].result.kind = "throw"
  /\ \E t, u \in BOOLEAN : outcome[c].result.error = EnvironmentMismatch(t, u)

\* the configuration gets past the tests of clientId and redirectUri
IdAndRedirectGiven(config) ==
  ~NoCredential(config.clientId) /\ ~NoString(config.redirectUri)

SecretTagDiffers(config) ==
  \E id \in config.clientId, secret \in config.clientSecret :
    \/ secret.prefix = "sk_test_" /\ id.prefix # "ak_test_"
    \/ secret.prefix = "sk_live_" /\ id.prefix = "ak_test_"

ValidCallback ==
  /\ ~ErrorGiven
  /\ StateMatches
  /\ NonceMatches
  /\ Claim("exp").t = "number"
  /\ CarriesAgeThresholds

\* the current time in whole seconds
NowSeconds == clock \div MsPerSecond

\* client c has just handled the callback
Handles(c) == outcome'[c] # outcome[c]

\* C34: no single use is enforced.  Every handling of a valid callback
\* against the stored pair, the first as well as every later one, returns a
\* result while the time in whole seconds is before the token's exp and
\* throws Invalid-token ("ID token has expired") from exp on; and whatever
\* the callback, a handling has the outcome of every handling made at the
\* same time before it, so no earlier handling changes a later outcome.
C34_NoSingleUseEnforced ==
  [][\A c \in Clients :
       Handles(c) =>
         /\ outcome'[c].at = clock
         /\ (ValidCallback /\ NowSeconds < Claim("exp").v) =>
              outcome'[c].result.kind = "return"
         /\ (ValidCallback /\ NowSeconds >= Claim("exp").v) =>
              /\ outcome'[c].result.kind = "throw"
              /\ outcome'[c].result.error.name = "InvalidTokenError"
              /\ outcome'[c].result.error.message = <<"ID token has expired">>
         /\ \A d \in Clients :
              (Called(d) /\ outcome[d].at = clock) =>
                outcome'[c].result = outcome[d].result]_vars

\* the callback was accepted at time 0 and the same callback, against the
\* same pair, was refused as expired once the time had reached exp
C34_Witness ==
  /\ ValidCallback
  /\ Called("c1") /\ outcome["c1"].at = 0 /\ Result("c1").kind = "return"
  /\ Called("c2") /\ NowAt("c2") = Claim("exp").v
  /\ IsInvalidTokenFor("c2", "ID token has expired")

(***************************************************************************)
(* Specification of the operations of one application on its clients.      *)
(* Client c1 is configured with a client secret and c2 without one.  The   *)
(* application makes up to MaxCalls direct calls of the synchronous        *)
(* methods of the two sub-clients, call holding the last one and its       *)
(* number, and each client makes one call of pushAuthorizationRequest or   *)
(* of initiate, which the transport answers.                               *)
(***************************************************************************)
\* the number of synchronous calls made so far
CallsMade == IF call = NoCall THEN 0 ELSE call.n

\* params.get(name): the value, or none for null
SearchParamsGet(params, name) ==
  IF name \in DOMAIN params THEN {params[name]} ELSE {}

\* UseAgeKeyClient.parseCallback(callbackUrl)
parseCallback(self, url) ==
  IF ~url.parses THEN Throw(TypeError, <<>>)
  ELSE
  LET params == url.searchParams IN
  Return([idToken |-> SearchParamsGet(params, "id_token"),
          state |-> SearchParamsGet(params, "state"),
          error |-> SearchParamsGet(params, "error"),
          errorDescription |-> SearchParamsGet(params, "error_description")],
         <<>>)

\* the callback URLs the application holds
OpsCallbackUrls ==
  {[parses |-> FALSE],
   [parses |-> TRUE,
    searchParams |-> [state |-> StateAB,
                      id_token |-> <<Header, Segment("std", JsonText(ValidPayload)),
                                     Signature>>]],
   [parses |-> TRUE,
    searchParams |-> [error |-> "access_denied",
                      error_description |-> "User cancelled",
                      state |-> StateAB]]}

OpsUseOptions ==
  {[ageThresholds |-> JArr(<<JNum(18)>>), allowedMethods |-> {},
    verifiedAfter |-> {}, overrides |-> {}, provenance |-> {},
    enableCreate |-> e, customState |-> {}] : e \in BOOLEAN}

\* the answers of the PAR endpoint
OpsResponses ==
  {[status |-> 200,
    body |-> JsonText(JObj([request_uri |-> JStr(RequestUri),
                            expires_in |-> JNum(60)]))],
   [status |-> 401,
    body |-> JsonText(JObj([error |-> JStr(<<"unauthorized_client">>)]))],
   [status |-> 500, body |-> NotJsonText]}

InitOps ==
  /\ client = [c \in Clients |-> NewAgeKey(CreateConfigs[c])]
  /\ clock = 0
  /\ callbackUrl \in OpsCallbackUrls
  /\ validation = [state |-> StateAB, nonce |-> NonceCD]
  /\ outcome = [c \in Clients |-> NotCalled]
  /\ call = NoCall
  /\ random = NoRandom
  /\ network = NoNetwork
  /\ par = NoPar
  /\ flows = NoFlows

\* the arrays the random source hands out to these calls
OpsRandomValues == {a \in GetRandomValues : a[1] = 1 \/ a[2] = 1}

\* useAgeKey.getAuthorizationUrl(options) on client c
OpsUseGetAuthorizationUrl(c) ==
  /\ CallsMade < MaxCalls
  /\ \E options \in OpsUseOptions, a1 \in OpsRandomValues :
     \E a2 \in OpsRandomValues \ {a1} :
     \E step \in {getAuthorizationUrl(client[c], random, <<a1, a2>>, options)} :
       /\ random' = [random EXCEPT !.drawn =
            @ \o [i \in DOMAIN step.drawn |-> [by |-> c, array |-> step.drawn[i]]]]
       /\ call' = [fn |-> "useAgeKey.getAuthorizationUrl", client |-> c,
                   n |-> CallsMade + 1, result |-> step.outcome]
  /\ UNCHANGED <<client, clock, callbackUrl, validation, outcome>>
  /\ UNCHANGED <<network, par, flows>>

\* useAgeKey.handleCallback(callbackUrl, validation) on client c
OpsUseHandleCallback(c) ==
  /\ CallsMade < MaxCalls
  /\ call' = [fn |-> "useAgeKey.handleCallback", client |-> c,
              n |-> CallsMade + 1,
              result |-> handleCallback(client[c], callbackUrl, validation)]
  /\ UNCHANGED <<client, clock, callbackUrl, validation, outcome>>
  /\ UNCHANGED <<random, network, par, flows>>

\* a parseCallback that asks the server about the callback it was handed
OpsParseCallback_fetches(c) ==
  /\ CallsMade < MaxCalls
  /\ call' = [fn |-> "useAgeKey.parseCallback", client |-> c,
              n |-> CallsMade + 1,
              result |-> parseCallback(client[c], callbackUrl)]
  /\ network' = [network EXCEPT !.requests =
       @ \o <<[by |-> c,
               request |-> [url |-> client[c].environment.useEndpoint,
                            method |-> "GET"]]>>]
  /\ UNCHANGED <<client, clock, callbackUrl, validation, outcome>>
  /\ UNCHANGED <<random, par, flows>>

\* useAgeKey.parseCallback(callbackUrl) on client c
OpsParseCallback(c) ==
  /\ CallsMade < MaxCalls
  /\ call' = [fn |-> "useAgeKey.parseCallback", client |-> c,
              n |-> CallsMade + 1,
              result |-> parseCallback(client[c], callbackUrl)]
  /\ UNCHANGED <<client, clock, callbackUrl, validation, outcome>>
  /\ UNCHANGED <<random, network, par, flows>>

\* createAgeKey.getAuthorizationUrl(requestUri, options) on client c
OpsCreateGetAuthorizationUrl(c) ==
  /\ CallsMade < MaxCalls
  /\ \E enableUpgrade \in BOOLEAN :
       call' = [fn |-> "createAgeKey.getAuthorizationUrl", client |-> c,
                n |-> CallsMade + 1,
                result |-> Return(
                  [url |-> Create_getAuthorizationUrl(
                             client[c], RequestUri,
                             [enableUpgrade |-> enableUpgrade])], <<>>)]
  /\ UNCHANGED <<client, clock, callbackUrl, validation, outcome>>
  /\ UNCHANGED <<random, network, par, flows>>

\* a handleCallback that drops the client secret once the flow has ended
OpsCreateHandleCallback_clearsSecret(c) ==
  /\ CallsMade < MaxCalls
  /\ call' = [fn |-> "createAgeKey.handleCallback", client |-> c,
              n |-> CallsMade + 1,
              result |-> Create_handleCallback(client[c], callbackUrl)]
  /\ client' = [client EXCEPT ![c].config.clientSecret = {}]
  /\ UNCHANGED <<clock, callbackUrl, validation, outcome>>
  /\ UNCHANGED <<random, network, par, flows>>

\* createAgeKey.handleCallback(callbackUrl) on client c
OpsCreateHandleCallback(c) ==
  /\ CallsMade < MaxCalls
  /\ call' = [fn |-> "createAgeKey.handleCallback", client |-> c,
              n |-> CallsMade + 1,
              result |-> Create_handleCallback(client[c], callbackUrl)]
  /\ UNCHANGED <<client, clock, callbackUrl, validation, outcome>>
  /\ UNCHANGED <<random, network, par, flows>>

OpsCreateOptions == {o \in CreateOptions : o.provenance # Undefined /\ o.enableUpgrade}

\* client c starts op: the function runs up to its first await
OpsBegin(c, op) ==
  /\ par[c].pc = "idle"
  /\ \E options \in OpsCreateOptions, array \in OpsRandomValues :
       LET step == pushAuthorizationRequest(client[c], random, array, options)
       IN
       /\ random' = [random EXCEPT !.drawn =
            @ \o [i \in DOMAIN step.drawn |-> [by |-> c, array |-> step.drawn[i]]]]
       /\ network' = [network EXCEPT !.requests =
            @ \o [i \in DOMAIN step.sent |-> [by |-> c, request |-> step.sent[i]]]]
       /\ par' = [par EXCEPT ![c] =
            IF step.outcome.kind = "await"
            THEN [pc |-> "fetch", op |-> op, options |-> options]
            ELSE [pc |-> "done", op |-> op, options |-> options,
                  ended |-> "start",
                  result |-> Settle(c, op, options, step.outcome)]]
  /\ UNCHANGED <<client, clock, callbackUrl, validation, outcome, call, flows>>

OpsPushAuthorizationRequest(c) == OpsBegin(c, "pushAuthorizationRequest")

OpsInitiate(c) == OpsBegin(c, "initiate")

\* the PAR endpoint answers the call of c
OpsFetchResolves(c) ==
  /\ par[c].pc = "fetch"
  /\ \E response \in OpsResponses :
       par' = [par EXCEPT ![c] =
         [pc |-> "json", op |-> @.op, options |-> @.options,
          response |-> response]]
  /\ UNCHANGED <<client, clock, callbackUrl, validation, outcome, call>>
  /\ UNCHANGED <<random, network, flows>>

NextOps ==
  \E c \in Clients :
    \/ OpsUseGetAuthorizationUrl(c)
    \/ OpsUseHandleCallback(c)
    \/ OpsParseCallback(c)
    \/ OpsCreateGetAuthorizationUrl(c)
    \/ OpsCreateHandleCallback(c)
    \/ OpsPushAuthorizationRequest(c)
    \/ OpsInitiate(c)
    \/ FetchRejects(c)
    \/ OpsFetchResolves(c)
    \/ JsonSettles(c)

SpecOps == InitOps /\ [][NextOps]_vars


(***************************************************************************)
(* Properties of the operations on a client (checked under SpecOps)        *)
(***************************************************************************)
\* the call of pushAuthorizationRequest or initiate of c has ended this way
ParEnded(c, kind) == par[c].pc = "done" /\ par[c].result.kind = kind

\* C35: after any sequence of Use-flow and Create-flow operations,
\* successful or failing, the configuration of every client is the one it
\* was constructed with, and its environment (isTest, baseUrl and the use,
\* create and PAR endpoints) is the one resolved from that configuration at
\* construction.
C35_ConfigAndEnvironmentFixed ==
  \A c \in Clients :
    LET resolved == getEnvironment(CreateConfigs[c].clientId,
                                   CreateConfigs[c].apiBaseUrl)
    IN
    /\ client[c].config = CreateConfigs[c]
    /\ client[c].environment.isTest = resolved.isTest
    /\ client[c].environment.baseUrl = resolved.baseUrl
    /\ client[c].environment.useEndpoint = resolved.useEndpoint
    /\ client[c].environment.createEndpoint = resolved.createEndpoint
    /\ client[c].environment.parEndpoint = resolved.parEndpoint

C35_Witness ==
  /\ ParEnded("c1", "return")
  /\ ParEnded("c2", "throw")
  /\ CallsMade = MaxCalls
  /\ call.client = "c1"
  /\ call.fn = "createAgeKey.handleCallback"
  /\ call.result.kind = "throw"
  /\ random.drawn # <<>>

\* the step is a call of a synchronous method
DirectCall == CallsMade' # CallsMade

\* the step is the start of pushAuthorizationRequest or initiate on c
ParStarts(c) ==
  /\ par[c].pc = "idle"
  /\ par'[c].pc # "idle"
  /\ par'[c].op \in {"pushAuthorizationRequest", "initiate"}

\* C36: only pushAuthorizationRequest, called directly or by initiate,
\* hands a request to the transport.  A call of Use-flow
\* getAuthorizationUrl, handleCallback or parseCallback or of Create-flow
\* getAuthorizationUrl or handleCallback sends no request and leaves the
\* clients, the pending PAR calls and what the application holds as they
\* were; randomness is consumed by Use-flow getAuthorizationUrl alone,
\* which draws the two arrays of its state and nonce.
C36_OnlyParContactsTransport ==
  [][/\ network' # network =>
          \E c \in Clients :
            /\ ParStarts(c)
            /\ \A i \in DOMAIN network'.requests \ DOMAIN network.requests :
                 network'.requests[i].by = c
     /\ DirectCall =>
          /\ call'.fn \in {"useAgeKey.getAuthorizationUrl",
                           "useAgeKey.handleCallback",
                           "useAgeKey.parseCallback",
                           "createAgeKey.getAuthorizationUrl",
                           "createAgeKey.handleCallback"}
          /\ network' = network
          /\ client' = client
          /\ par' = par
          /\ UNCHANGED <<clock, callbackUrl, validation, outcome, flows>>
          /\ call'.fn # "useAgeKey.getAuthorizationUrl" => random' = random
          /\ call'.fn = "useAgeKey.getAuthorizationUrl" =>
               /\ random'.available = random.available
               /\ Len(random'.drawn) = Len(random.drawn) + 2
               /\ SubSeq(random'.drawn, 1, Len(random.drawn)) = random.drawn]_vars

C36_Witness ==
  /\ CallsMade = MaxCalls
  /\ call.fn = "useAgeKey.parseCallback"
  /\ call.result.kind = "return"
  /\ Len(network.requests) = 1
  /\ Len(random.drawn) = 3
  /\ \E c \in Clients : par[c].pc = "done" /\ par[c].op = "initiate"

(***************************************************************************)
(* Vocabulary of the properties of the age thresholds of a request         *)
(***************************************************************************)
\* the array is a valid set of age thresholds: 1 to 5 elements, all of them
\* positive integers, no two of them equal
ValidAgeThresholdSet(array) ==
  /\ array.t = "array"
  /\ Len(array.v) \in 1..5
  /\ \A i \in DOMAIN array.v :
       /\ array.v[i].t = "number"
       /\ array.v[i].v \in Nat \ {0}
  /\ \A i, j \in DOMAIN array.v : array.v[i] = array.v[j] => i = j

\* C37: every URL that Use-flow getAuthorizationUrl returns carries in its
\* claims an age_thresholds that is a valid set of age thresholds (1 to 5
\* distinct positive integers), and a call whose ageThresholds is empty,
\* longer than 5 or holds a duplicate returns no URL.
C37_AgeThresholdsAlwaysValid ==
  /\ UseUrlReturned =>
       /\ Field(ClaimsOf(call.result), "age_thresholds") # {}
       /\ \A thresholds \in Field(ClaimsOf(call.result), "age_thresholds") :
            ValidAgeThresholdSet(thresholds)
  /\ (UseUrlCalled /\ ~ValidAgeThresholdSet(call.options.ageThresholds)) =>
       call.result.kind = "throw"

(***************************************************************************)
(* Vocabulary of the properties of the age thresholds of a result          *)
(***************************************************************************)
\* the value is a mapping from strings to booleans
BooleanMapping(value) ==
  /\ value.t = "object"
  /\ \A k \in DOMAIN value.v : value.v[k].t = "boolean"

\* C38: in every result that Use-flow handleCallback returns, ageThresholds
\* is a mapping from strings to booleans; a token whose age_thresholds is
\* an array, or holds a value that is not a boolean, is not turned into a
\* result.
C38_ResultThresholdsAreBooleans ==
  \A c \in Clients :
    (Called(c) /\ Result(c).kind = "return") =>
      /\ BooleanMapping(Result(c).value.ageThresholds)
      /\ BooleanMapping(Claim("age_thresholds"))

(***************************************************************************)
(* Vocabulary of the properties of the client secret                       *)
(***************************************************************************)
\* the client secrets configured
Secrets == UNION {client[c].config.clientSecret : c \in Clients}

\* the parameters of a URL, or the fields of a form, that hold a credential
CredentialFields == {"client_id", "client_secret"}

\* a sequence of name-value pairs holds a client secret: in a field named
\* client_secret, or as the value of the other credential field
HoldsSecret(pairs) ==
  \E i \in DOMAIN pairs :
    /\ pairs[i][1] \in CredentialFields
    /\ pairs[i][1] = "client_secret" \/ pairs[i][2] \in Secrets

\* the URLs that have been returned to the application
ReturnedUrls ==
  (IF /\ call # NoCall
      /\ call.fn \in {"useAgeKey.getAuthorizationUrl",
                       "createAgeKey.getAuthorizationUrl"}
      /\ call.result.kind = "return"
   THEN {call.result.value.url} ELSE {})
  \cup
  {par[c].result.value.authUrl : c \in
     {d \in Clients : /\ par[d].pc = "done"
                      /\ par[d].op = "initiate"
                      /\ par[d].result.kind = "return"}}

\* the names of the members of what each method returns
ResultMembers ==
  [useAgeKey_getAuthorizationUrl |-> {"url", "state", "nonce"},
   useAgeKey_handleCallback |-> {"ageThresholds", "subject", "raw"},
   useAgeKey_parseCallback |-> {"idToken", "state", "error", "errorDescription"},
   createAgeKey_getAuthorizationUrl |-> {"url"},
   createAgeKey_handleCallback |-> {"success", "error", "errorDescription"},
   pushAuthorizationRequest |-> {"requestUri", "expiresIn"},
   initiate |-> {"authUrl", "requestUri", "expiresIn"}]

\* the method name as a member name of ResultMembers
MemberName(fn) ==
  CASE fn = "useAgeKey.getAuthorizationUrl" -> "useAgeKey_getAuthorizationUrl"
    [] fn = "useAgeKey.handleCallback" -> "useAgeKey_handleCallback"
    [] fn = "useAgeKey.parseCallback" -> "useAgeKey_parseCallback"
    [] fn = "createAgeKey.getAuthorizationUrl" -> "createAgeKey_getAuthorizationUrl"
    [] fn = "createAgeKey.handleCallback" -> "createAgeKey_handleCallback"
    [] OTHER -> fn

\* C39: the client secret appears only in the body of the PAR request,
\* which goes to the PAR endpoint of the client: after any sequence of
\* operations, every request sent is a POST to the PAR endpoint of its
\* client with the secret of that client in its client_secret field; no
\* URL returned to the application (by Use-flow or Create-flow
\* getAuthorizationUrl, or as the authUrl of initiate) holds a secret, and
\* no returned result has a member other than those of its method, none of
\* which is the secret.
C39_SecretOnlyInParBody ==
  /\ \A i \in DOMAIN network.requests :
       LET by == network.requests[i].by
           request == network.requests[i].request
       IN
       /\ request.url = client[by].environment.parEndpoint
       /\ request.method = "POST"
       /\ FormValues(request, "client_secret") = client[by].config.clientSecret
       /\ FormValues(request, "client_id") \cap Secrets = {}
  /\ \A url \in ReturnedUrls : ~HoldsSecret(url.params)
  /\ (call # NoCall /\ call.result.kind = "return") =>
       DOMAIN call.result.value \subseteq ResultMembers[MemberName(call.fn)]
  /\ \A c \in Clients :
       (par[c].pc = "done" /\ par[c].result.kind = "return") =>
         DOMAIN par[c].result.value \subseteq ResultMembers[par[c].op]

C39_Witness ==
  /\ Secrets # {}
  /\ \E i \in DOMAIN network.requests :
       /\ network.requests[i].by = "c1"
       /\ HoldsSecret(network.requests[i].request.body)
  /\ par["c1"].pc = "done" /\ par["c1"].op = "initiate"
  /\ par["c1"].result.kind = "return"
  /\ call # NoCall
  /\ call.client = "c1"
  /\ call.fn = "createAgeKey.getAuthorizationUrl"
  /\ Cardinality(ReturnedUrls) = 2

(***************************************************************************)
(* Vocabulary of the properties of initiate (checked under SpecPar)        *)
(***************************************************************************)
\* the call of c is a call of initiate
Initiated(c) == par[c].pc # "idle" /\ par[c].op = "initiate"

\* what the pushAuthorizationRequest that the ended call of c awaited
\* settled with: it failed before the exchange, or on the rejection of
\* fetch, or it ran on what the server answered
PushOutcome(c) ==
  CASE par[c].ended = "start" ->
         Throw(IF NoClientSecret(client[c]) THEN MissingSecret
               ELSE CryptoUnavailable, <<>>)
    [] par[c].ended = "fetch" ->
         pushAuthorizationRequest_catch(par[c].rejection)
    [] par[c].ended = "json" ->
         IF JsonParseThrows(par[c].response.body)
         THEN pushAuthorizationRequest_catch(SyntaxError)
         ELSE pushAuthorizationRequest_data(par[c].response,
                                            JsonParse(par[c].response.body))

\* the values of the parameters of the name in the URL
UrlValues(url, name) ==
  {url.params[i][2] : i \in {j \in DOMAIN url.params : url.params[j][1] = name}}

\* the scopes in the bodies of the requests the call of c has sent
ScopesSent(c) ==
  UNION {FormValues(network.requests[i].request, "scope") : i \in RequestsBy(c)}

\* C40: initiate runs the PAR push first and builds the URL from its result
\* alone.  While the push is pending, the request has been sent and
\* initiate has returned nothing.  When the push fails, initiate fails with
\* that same failure and returns no authUrl; when it succeeds, initiate
\* returns authUrl, requestUri and expiresIn, where requestUri and expiresIn
\* are those of the push, authUrl carries that request URI as its one
\* request_uri, and the scope of authUrl is the scope sent in the PAR body.
C40_InitiateBuildsFromPushResult ==
  \A c \in Clients :
    Initiated(c) =>
      /\ par[c].pc \in {"fetch", "json"} =>
           /\ Cardinality(RequestsBy(c)) = 1
           /\ "result" \notin DOMAIN par[c]
      /\ Done(c) =>
           LET push == PushOutcome(c)
               result == par[c].result
           IN
           /\ push.kind = "throw" =>
                /\ result = push
                /\ "value" \notin DOMAIN result
           /\ push.kind = "return" =>
                /\ result.kind = "return"
                /\ DOMAIN result.value = {"authUrl", "requestUri", "expiresIn"}
                /\ result.value.requestUri = push.value.requestUri
                /\ result.value.expiresIn = push.value.expiresIn
                /\ result.value.authUrl.endpoint = client[c].environment.createEndpoint
                /\ UrlValues(result.value.authUrl, "request_uri") =
                     {push.value.requestUri}
                /\ Cardinality(ScopesSent(c)) = 1
                /\ UrlValues(result.value.authUrl, "scope") = ScopesSent(c)

C40_Witness ==
  \E c \in Clients :
    /\ Initiated(c) /\ Done(c)
    /\ par[c].options.enableUpgrade
    /\ par[c].result.kind = "return"
    /\ UrlValues(par[c].result.value.authUrl, "scope") = {SCOPES.upgrade}
    /\ UrlValues(par[c].result.value.authUrl, "request_uri") = {RequestUri}
    /\ par[c].result.value.expiresIn = 60

=============================================================================
